---- MODULE Spec2Model ----
(***************************************************************************)
(* Shader graph editor (hankarun/shaderGraphAI): the node graph held by    *)
(* ShaderGraphEditor, the dependency resolver GraphTraverser, the GLSL     *)
(* body generator and the HLSL/GLSL text converters.                       *)
(*                                                                         *)
(* Node ids stand for ImFlow::NodeUID values.  Float values are kept in    *)
(* thousandths (250 is 0.25), which is what the "%.3f" / setprecision(3)   *)
(* formatting of the nodes can show.                                       *)
(***************************************************************************)
EXTENDS Integers, Sequences, FiniteSets, TLC

(* ----------------------------- bounds ---------------------------------- *)

\* nodes other than the output node that exist at the same time
MaxNodes == 2

\* links that exist at the same time
MaxLinks == 5

\* values a FloatNode's drag field is set to, in thousandths
FloatValues == {0, 250}

\* node kinds the add-node menu is used for in one session; every kind of
\* shader_nodes.h occurs in some palette
Palettes ==
    { {"Float", "MakeVec3"},
      {"Multiply", "Color"},
      {"UV", "Add"},
      {"SplitVec3", "Normal"},
      {"Time", "Sin", "Cos", "Abs"},
      {"Subtract", "Divide", "Fresnel"},
      {"Mix", "Clamp"},
      {"FloatParameter", "Vec3Parameter"},
      {"Multiply", "UV"} }

(* ------------------------- node kind tables ---------------------------- *)

NodeKinds ==
    {"Float", "Color", "Time", "UV", "Normal", "Add", "Multiply", "Subtract",
     "Divide", "Sin", "Cos", "Abs", "Mix", "Clamp", "MakeVec3", "SplitVec3",
     "Fresnel", "Output"}

\* the parameter node classes showAddNodeMenu places (FloatParameterNode,
\* Vec3ParameterNode)
ParameterKinds == {"FloatParameter", "Vec3Parameter"}

\* isParameterNode(): true of the parameter node classes
IsParameterNode(kind) == kind \in ParameterKinds

\* the output pins of a parameter node
ParameterOutPins == <<"Value">>

\* the declared value type of a parameter node
ParameterType(kind) == IF kind = "Vec3Parameter" THEN "Vec3" ELSE "Float"

\* kinds showAddNodeMenu places in this model
MenuKinds == (NodeKinds \ {"Output"}) \cup ParameterKinds

\* addIN calls of each constructor, in declaration order
InPins(kind) ==
    CASE kind \in {"Add", "Multiply", "Subtract", "Divide"} -> <<"A", "B">>
      [] kind \in {"Sin", "Cos", "Abs", "Clamp"} -> <<"X">>
      [] kind = "Mix" -> <<"A", "B", "T">>
      [] kind = "MakeVec3" -> <<"X", "Y", "Z">>
      [] kind = "SplitVec3" -> <<"Vec3">>
      [] kind = "Fresnel" -> <<"Power">>
      [] kind = "Output" -> <<"Color", "Alpha">>
      [] OTHER -> <<>>

\* addOUT calls of each constructor, in declaration order
OutPins(kind) ==
    CASE kind = "Float" -> <<"Value">>
      [] kind = "Color" -> <<"RGB">>
      [] kind = "Time" -> <<"Time">>
      [] kind = "UV" -> <<"XYZ", "X", "Y", "Z">>
      [] kind = "Normal" -> <<"Normal">>
      [] kind \in {"Add", "Multiply", "Subtract", "Divide", "Sin", "Cos",
                   "Abs", "Mix", "Clamp"} -> <<"Result">>
      [] kind = "MakeVec3" -> <<"Vec3">>
      [] kind = "SplitVec3" -> <<"X", "Y", "Z">>
      [] kind = "Fresnel" -> <<"Factor">>
      [] IsParameterNode(kind) -> ParameterOutPins
      [] OTHER -> <<>>

\* the default value given to addIN for an input pin (ShaderCode(...).code)
DeclaredDefault(kind, pin) ==
    CASE kind \in {"Add", "Subtract"} -> "0.0"
      [] kind \in {"Multiply", "Divide"} -> "1.0"
      [] kind \in {"Sin", "Cos", "Abs", "Clamp"} -> "0.0"
      [] kind = "Mix" -> (CASE pin = "A" -> "0.0" [] pin = "B" -> "1.0" [] OTHER -> "0.5")
      [] kind = "MakeVec3" -> "0.0"
      [] kind = "SplitVec3" -> "vec3(0.0)"
      [] kind = "Fresnel" -> "2.0"
      [] kind = "Output" -> (IF pin = "Color" THEN "vec3(1.0, 0.5, 0.2)" ELSE "1.0")
      [] OTHER -> "0.0"

\* the connection filter given to addIN for the input pins of a kind
PinFilter(kind) == IF kind = "Multiply" THEN "None" ELSE "SameType"

\* the template argument of addIN<T> / addOUT<T>: every pin carries ShaderCode
PinDataType(kind, pin) == "ShaderCode"

\* the value type a pin is declared with: the pin style given to addIN / addOUT
DeclaredPinType(kind, pin) ==
    IF \/ kind = "Color" /\ pin = "RGB"
       \/ kind = "UV" /\ pin = "XYZ"
       \/ kind = "Normal" /\ pin = "Normal"
       \/ kind = "MakeVec3" /\ pin = "Vec3"
       \/ kind = "SplitVec3" /\ pin = "Vec3"
       \/ kind = "Output" /\ pin = "Color"
       \/ IsParameterNode(kind) /\ ParameterType(kind) = "Vec3"
      THEN "Vec3"
      ELSE "Float"

\* isSourceNode()
IsSourceNode(kind) ==
    kind \in {"Float", "Color", "Time", "UV", "Normal"} \/ IsParameterNode(kind)

\* typeToGLSL
typeToGLSL(type) ==
    CASE type = "Float" -> "float"
      [] type = "Vec2" -> "vec2"
      [] type = "Vec3" -> "vec3"
      [] type = "Vec4" -> "vec4"
      [] OTHER -> "float"

(* ------------------------------ state ---------------------------------- *)

VARIABLES
    palette,    \* kinds placed through the add-node menu in this session
    nodes,      \* m_nodeFlow's node table: NodeUID -> [kind, val]
    links,      \* the links of m_nodeFlow: [ln, lp, rn, rp] (left = output pin)
    m_parameters, \* the UniformParameter list collectParameters made
    ret,        \* what the last call returned: NoText after an operation that
                \* returns nothing, else the result of generateFragmentShader
    input,      \* the shader text handed to the converters, as characters
    text,       \* the text after the conversions made so far
    trail,      \* the conversions made so far, oldest first
    m_lastGeneratedCode,    \* App: the text of the last change, as lines
    m_fragmentShaderSource, \* App: the text handed to the compiler, as lines
    m_shaderCompileError,   \* App: the last compileShaders call failed
    m_shaderProgram,    \* App: "none" for handle 0, else what the handle
                        \* names: a "deleted", a "linked" or an "unlinked" program
    m_autoCompile,      \* App: the auto-compile checkbox
    pc,                 \* App: the call of init() or render() that comes next
    compileCalls,       \* the number of compileShaders calls made, modulo 2
    lastCompile,        \* how the last compileShaders call ended
    usedProgram         \* the last renderCubeToTexture called glUseProgram

graphVars == <<palette, nodes, links, m_parameters, ret>>

langVars == <<input, text, trail>>

appVars == <<m_lastGeneratedCode, m_fragmentShaderSource, m_shaderCompileError,
             m_shaderProgram, m_autoCompile, pc, compileCalls, lastCompile,
             usedProgram>>

vars == <<palette, nodes, links, m_parameters, ret, input, text, trail,
          m_lastGeneratedCode, m_fragmentShaderSource, m_shaderCompileError,
          m_shaderProgram, m_autoCompile, pc, compileCalls, lastCompile,
          usedProgram>>

\* m_outputNode: the shared_ptr made in the constructor; it is never reset
OutId == 0

NodeIds == 0 .. MaxNodes

NoText == [none |-> TRUE]

\* the node object behind a NodeUID m_outputNode or the node table refers to
KindOf(n) == IF n = OutId THEN "Output" ELSE nodes[n].kind

Range(s) == {s[i] : i \in 1 .. Len(s)}

\* pin->getLink() of input pin (n, p): the links whose right end is the pin
LinksInto(n, p) == {l \in links : l.rn = n /\ l.rp = p}

\* pin->isConnected()
IsConnected(n, p) == LinksInto(n, p) # {}

RECURSIVE UpClosure(_)

\* the nodes S and every node they depend on through input links
UpClosure(S) ==
    LET T == S \cup {l.ln : l \in {k \in links : k.rn \in S}}
    IN IF T = S THEN S ELSE UpClosure(T)

\* the nodes reachable from the output node by following input links backward
Reachable == UpClosure({OutId})

\* link->left() of the link of a connected input pin, as <<node, pin>>
LeftOf(n, p) == LET l == CHOOSE l \in LinksInto(n, p) : TRUE IN <<l.ln, l.lp>>

(* ------------------ GraphTraverser: dependency resolver ----------------- *)

RECURSIVE collectConnectedNodes(_, _), collectPins(_, _, _)

\* collectConnectedNodes that takes every node of the node table
collectEveryNode(n, acc) ==
    LET S == DOMAIN nodes \cup {OutId}
    IN [nodes |-> CHOOSE s \in [1 .. Cardinality(S) -> S] : Range(s) = S,
        visited |-> S]

\* DFS to collect all nodes connected to the output; acc = [nodes, visited]
collectConnectedNodes(n, acc) ==
    IF n \in acc.visited
      THEN acc
      ELSE collectPins(n, 1, [nodes |-> Append(acc.nodes, n),
                              visited |-> acc.visited \cup {n}])

\* the loop over node->getIns() of collectConnectedNodes, from pin i on
collectPins(n, i, acc) ==
    IF i > Len(InPins(KindOf(n)))
      THEN acc
      ELSE LET p == InPins(KindOf(n))[i]
           IN collectPins(n, i + 1,
                  IF IsConnected(n, p)
                    THEN collectConnectedNodes(LeftOf(n, p)[1], acc)
                    ELSE acc)

\* the three containers of topologicalSort as they stand in st
Snapshot(st) == [visited |-> st.visited, inStack |-> st.inStack, result |-> st.result]

\* st with its containers recorded in steps, the record of what the containers
\* held after each statement that changed one of them
Logged(st) == [st EXCEPT !.steps = Append(@, Snapshot(st))]

\* DfsSkips without the visited test
DfsSkipsOnStackOnly(n, st) == n \in st.inStack

\* the two early returns of topologicalSortDFS;
\* st = [visited, inStack, result, steps]
DfsSkips(n, st) == n \in st.inStack \/ n \in st.visited

\* inStack.insert(nodeId)
DfsEnter(n, st) == Logged([st EXCEPT !.inStack = @ \cup {n}])

\* DfsLeave putting the node at the front of the result
DfsLeaveFront(n, st) ==
    Logged([Logged([Logged([st EXCEPT !.inStack = @ \ {n}])
                      EXCEPT !.visited = @ \cup {n}])
              EXCEPT !.result = <<n>> \o @])

\* DfsLeave that keeps the output node out of the result
DfsLeaveSkipOutput(n, st) ==
    Logged([Logged([Logged([st EXCEPT !.inStack = @ \ {n}])
                      EXCEPT !.visited = @ \cup {n}])
              EXCEPT !.result = IF n = OutId THEN @ ELSE Append(@, n)])

\* DfsLeave without inStack.erase
DfsLeaveKeepOnStack(n, st) ==
    Logged([Logged([st EXCEPT !.visited = @ \cup {n}])
              EXCEPT !.result = Append(@, n)])

\* inStack.erase; visited.insert; result.push_back
DfsLeave(n, st) ==
    Logged([Logged([Logged([st EXCEPT !.inStack = @ \ {n}])
                      EXCEPT !.visited = @ \cup {n}])
              EXCEPT !.result = Append(@, n)])

RECURSIVE topologicalSortDFS(_, _), dfsPins(_, _, _)

topologicalSortDFS(n, st) ==
    IF DfsSkips(n, st)
      THEN st
      ELSE DfsLeave(n, dfsPins(n, 1, DfsEnter(n, st)))

\* the loop over node->getIns() of topologicalSortDFS, from pin i on
dfsPins(n, i, st) ==
    IF i > Len(InPins(KindOf(n)))
      THEN st
      ELSE LET p == InPins(KindOf(n))[i]
           IN dfsPins(n, i + 1,
                  IF IsConnected(n, p)
                    THEN topologicalSortDFS(LeftOf(n, p)[1], st)
                    ELSE st)

RECURSIVE sortLoop(_, _, _)

\* the loop over connectedNodes of topologicalSort, from index i on
sortLoop(connected, i, st) ==
    IF i > Len(connected)
      THEN st
      ELSE sortLoop(connected, i + 1,
               IF connected[i] \notin st.visited
                 THEN topologicalSortDFS(connected[i], st)
                 ELSE st)

\* the state topologicalSort returns with; its result field is the return value
topologicalSortState ==
    LET connected == collectConnectedNodes(OutId, [nodes |-> <<>>, visited |-> {}]).nodes
    IN sortLoop(connected, 1, [visited |-> {}, inStack |-> {}, result |-> <<>>,
                               steps |-> <<>>])

topologicalSort == topologicalSortState.result

(* --------------------- shader nodes: code generation -------------------- *)

\* std::fixed << std::setprecision(3) of a value given in thousandths
Fixed3(v) ==
    LET a == IF v < 0 THEN 0 - v ELSE v
        r == a % 1000
        frac == IF r < 10 THEN "00" \o ToString(r)
                ELSE IF r < 100 THEN "0" \o ToString(r)
                ELSE ToString(r)
    IN (IF v < 0 THEN "-" ELSE "") \o ToString(a \div 1000) \o "." \o frac

\* getInputVar: the text of the linked source pin in varMap, else defaultVal
getInputVar(n, pinName, varMap, defaultVal) ==
    IF IsConnected(n, pinName) /\ LeftOf(n, pinName) \in DOMAIN varMap
      THEN varMap[LeftOf(n, pinName)]
      ELSE defaultVal

\* FallbackText with the neutral element of Multiply mistaken for that of Add
FallbackTextMultiplyZero(kind, pin) ==
    CASE kind \in {"Add", "Subtract", "Multiply"} -> "0.0"
      [] kind = "Divide" -> "1.0"
      [] kind \in {"Sin", "Cos", "Abs", "Clamp"} -> "0.0"
      [] kind = "Mix" -> (CASE pin = "A" -> "0.0" [] pin = "B" -> "1.0" [] OTHER -> "0.5")
      [] kind = "MakeVec3" -> "0.0"
      [] kind = "SplitVec3" -> "vec3(0.0)"
      [] kind = "Fresnel" -> "2.0"
      [] kind = "Output" -> (IF pin = "Color" THEN "vec3(1.0, 0.5, 0.2)" ELSE "1.0")
      [] OTHER -> "0.0"

\* the defaultVal each generateExpression / generateCodeFromVarMap passes to
\* getInputVar for an input pin
FallbackText(kind, pin) ==
    CASE kind \in {"Add", "Subtract"} -> "0.0"
      [] kind \in {"Multiply", "Divide"} -> "1.0"
      [] kind \in {"Sin", "Cos", "Abs", "Clamp"} -> "0.0"
      [] kind = "Mix" -> (CASE pin = "A" -> "0.0" [] pin = "B" -> "1.0" [] OTHER -> "0.5")
      [] kind = "MakeVec3" -> "0.0"
      [] kind = "SplitVec3" -> "vec3(0.0)"
      [] kind = "Fresnel" -> "2.0"
      [] kind = "Output" -> (IF pin = "Color" THEN "vec3(1.0, 0.5, 0.2)" ELSE "1.0")
      [] OTHER -> "0.0"

\* what getInputVar returns for every input pin of node n under varMap
InputTexts(n, varMap) ==
    [p \in Range(InPins(KindOf(n))) |->
        getInputVar(n, p, varMap, FallbackText(KindOf(n), p))]

\* getUniformParameter() of a parameter node: (name, display name, value
\* type, current value)
getUniformParameter(n) ==
    [name |-> "param" \o ToString(n),
     displayName |-> "Parameter " \o ToString(n),
     type |-> ParameterType(KindOf(n)),
     value |-> nodes[n].val]

\* generateExpression of each node class
generateExpression(n, pinName, varMap) ==
    LET kind == KindOf(n)
        in == InputTexts(n, varMap)
    IN CASE kind = "Float" -> Fixed3(nodes[n].val)
         [] kind = "Color" ->
              "vec3(" \o Fixed3(1000) \o ", " \o Fixed3(500) \o ", " \o Fixed3(200) \o ")"
         [] kind = "Time" -> "time"
         [] kind = "UV" ->
              (CASE pinName = "X" -> "FragPos.x"
                 [] pinName = "Y" -> "FragPos.y"
                 [] pinName = "Z" -> "FragPos.z"
                 [] OTHER -> "FragPos")
         [] kind = "Normal" -> "normalize(Normal)"
         [] kind = "Add" -> "(" \o in["A"] \o " + " \o in["B"] \o ")"
         [] kind = "Multiply" -> "(" \o in["A"] \o " * " \o in["B"] \o ")"
         [] kind = "Subtract" -> "(" \o in["A"] \o " - " \o in["B"] \o ")"
         [] kind = "Divide" -> "(" \o in["A"] \o " / " \o in["B"] \o ")"
         [] kind = "Sin" -> "sin(" \o in["X"] \o ")"
         [] kind = "Cos" -> "cos(" \o in["X"] \o ")"
         [] kind = "Abs" -> "abs(" \o in["X"] \o ")"
         [] kind = "Mix" ->
              "mix(" \o in["A"] \o ", " \o in["B"] \o ", " \o in["T"] \o ")"
         [] kind = "Clamp" ->
              "clamp(" \o in["X"] \o ", " \o Fixed3(0) \o ", " \o Fixed3(1000) \o ")"
         [] kind = "MakeVec3" ->
              "vec3(" \o in["X"] \o ", " \o in["Y"] \o ", " \o in["Z"] \o ")"
         [] kind = "SplitVec3" ->
              (CASE pinName = "Y" -> "(" \o in["Vec3"] \o ").y"
                 [] pinName = "Z" -> "(" \o in["Vec3"] \o ").z"
                 [] OTHER -> "(" \o in["Vec3"] \o ").x")
         [] kind = "Fresnel" ->
              "pow(1.0 - max(dot(normalize(Normal), normalize(viewPos - FragPos)), 0.0), "
                  \o in["Power"] \o ")"
         [] IsParameterNode(kind) -> getUniformParameter(n).name
         [] OTHER -> "0.0"

\* the Multiply nodes whose getOutputType a call of MultiplyNode::getOutputType
\* on n calls (the sources of its connected pins A and B)
MultiplySources(n) ==
    {LeftOf(n, p)[1] : p \in {p \in {"A", "B"} :
        IsConnected(n, p) /\ KindOf(LeftOf(n, p)[1]) = "Multiply"}}

RECURSIVE MultiplyCallees(_)

\* every node on which a getOutputType call started on the nodes S ends up
\* being called
MultiplyCallees(S) ==
    LET T == S \cup UNION {MultiplySources(m) : m \in S}
    IN IF T = S THEN S ELSE MultiplyCallees(T)

\* getOutputType on n never returns: the calls reach a Multiply node that is
\* its own (transitive) source, and nothing bounds the recursion
OutputTypeDiverges(n) ==
    /\ KindOf(n) = "Multiply"
    /\ \E m \in MultiplyCallees({n}) :
          MultiplySources(m) # {} /\ m \in MultiplyCallees(MultiplySources(m))

RECURSIVE getOutputTypeFromFirstInput(_, _)

\* getOutputType with MultiplyNode looking at its input A only
getOutputTypeFromFirstInput(n, pinName) ==
    LET kind == KindOf(n)
        isVec3(p) == /\ IsConnected(n, p)
                     /\ getOutputTypeFromFirstInput(LeftOf(n, p)[1], LeftOf(n, p)[2]) = "Vec3"
    IN CASE kind \in {"Color", "Normal", "MakeVec3"} -> "Vec3"
         [] IsParameterNode(kind) -> ParameterType(kind)
         [] kind = "UV" -> (IF pinName = "XYZ" THEN "Vec3" ELSE "Float")
         [] kind = "Multiply" -> (IF isVec3("A") THEN "Vec3" ELSE "Float")
         [] OTHER -> "Float"

RECURSIVE getOutputType(_, _)

\* getOutputType of each node class (evaluated only where it returns)
getOutputType(n, pinName) ==
    LET kind == KindOf(n)
        isVec3(p) == /\ IsConnected(n, p)
                     /\ getOutputType(LeftOf(n, p)[1], LeftOf(n, p)[2]) = "Vec3"
    IN CASE kind \in {"Color", "Normal", "MakeVec3"} -> "Vec3"
         [] IsParameterNode(kind) -> ParameterType(kind)
         [] kind = "UV" -> (IF pinName = "XYZ" THEN "Vec3" ELSE "Float")
         [] kind = "Multiply" ->
              (IF isVec3("A") \/ isVec3("B") THEN "Vec3" ELSE "Float")
         [] OTHER -> "Float"

(* ------------------ ShaderGraphEditor: code generation ------------------ *)

\* what a generateFragmentShader call that overflows the stack leaves behind
StackOverflow == [crash |-> TRUE]

\* the connected input pins of node n whose link comes from node src
PinUses(n, src) ==
    Cardinality({p \in Range(InPins(KindOf(n))) :
                    IsConnected(n, p) /\ LeftOf(n, p)[1] = src})

RECURSIVE CountUses(_, _, _)

\* the second loop of countOutputConnections, from index i on, for one source
CountUses(sorted, i, src) ==
    IF i > Len(sorted)
      THEN 0
      ELSE PinUses(sorted[i], src) + CountUses(sorted, i + 1, src)

\* countOutputConnections leaving the output node's input pins uncounted
countOutputConnectionsInner(sorted) ==
    [src \in NodeIds |-> CountUses(SelectSeq(sorted, LAMBDA n : n # OutId), 1, src)]

\* countOutputConnections: per node, the connected input pins of the sorted
\* nodes that are fed by any output pin of that node
countOutputConnections(sorted) == [src \in NodeIds |-> CountUses(sorted, 1, src)]

\* a counter that goes on from the declarations of the previous call
CarriedVarCounter ==
    IF ret = NoText \/ ret = StackOverflow THEN 0 ELSE Len(ret.decls)

\* int varCounter = 0
InitialVarCounter == 0

\* UsesInline with the limit off by one
UsesInlineUpToTwo(n, outCount) == IsSourceNode(KindOf(n)) /\ outCount[n] <= 2

\* UsesInline only for unused source nodes
UsesInlineUnused(n, outCount) == IsSourceNode(KindOf(n)) /\ outCount[n] < 1

\* UsesInline without the source-node test
UsesInlineAnyNode(n, outCount) == outCount[n] <= 1

\* "Source nodes with single output use inline expression"
UsesInline(n, outCount) == IsSourceNode(KindOf(n)) /\ outCount[n] <= 1

\* VarName numbering from one
VarNameFromOne(k) == "v" \o ToString(k + 1)

\* "v" + std::to_string(varCounter)
VarName(k) == "v" \o ToString(k)

\* the body of the loop over node->getOuts() for output pin pinName;
\* g = [ss, varMap, varCounter, decls]
EmitPin(n, pinName, outCount, g) ==
    LET expr == generateExpression(n, pinName, g.varMap)
    IN IF UsesInline(n, outCount)
         THEN [g EXCEPT !.varMap = (<<n, pinName>> :> expr) @@ @]
         ELSE LET varName == VarName(g.varCounter)
                  typeStr == typeToGLSL(getOutputType(n, pinName))
              IN [ss |-> Append(g.ss, "    " \o typeStr \o " " \o varName
                                        \o " = " \o expr \o ";"),
                  varMap |-> (<<n, pinName>> :> varName) @@ g.varMap,
                  varCounter |-> g.varCounter + 1,
                  decls |-> Append(g.decls,
                               [node |-> n, pin |-> pinName, var |-> varName,
                                type |-> typeStr, expr |-> expr,
                                args |-> InputTexts(n, g.varMap)])]

RECURSIVE EmitPins(_, _, _, _)

\* the loop over node->getOuts(), from pin j on
EmitPins(n, j, outCount, g) ==
    IF j > Len(OutPins(KindOf(n)))
      THEN g
      ELSE EmitPins(n, j + 1, outCount,
                    EmitPin(n, OutPins(KindOf(n))[j], outCount, g))

RECURSIVE EmitNodes(_, _, _, _)

\* the loop over sortedNodes of generateShaderBody, from index i on
EmitNodes(sorted, i, outCount, g) ==
    IF i > Len(sorted)
      THEN g
      ELSE EmitNodes(sorted, i + 1, outCount,
               IF sorted[i] = OutId
                 THEN g
                 ELSE EmitPins(sorted[i], 1, outCount, g))

\* OutputNode::generateCodeFromVarMap
generateCodeFromVarMap(varMap) ==
    LET in == InputTexts(OutId, varMap)
    IN << "    vec3 finalColor = " \o in["Color"] \o ";",
          "    float finalAlpha = " \o in["Alpha"] \o ";",
          "    FragColor = vec4(finalColor, finalAlpha);" >>

\* generateShaderBody: the lines written to ss, with the declarations made and
\* the texts the output node resolved its inputs to
generateShaderBody ==
    LET sorted == topologicalSort
        outCount == countOutputConnections(sorted)
    IN IF \E i \in 1 .. Len(sorted) :
             sorted[i] # OutId /\ OutputTypeDiverges(sorted[i])
         THEN StackOverflow
         ELSE LET g == EmitNodes(sorted, 1, outCount,
                           [ss |-> <<>>, varMap |-> <<>>,
                            varCounter |-> InitialVarCounter, decls |-> <<>>])
              IN [lines |-> (IF g.varCounter > 0 THEN Append(g.ss, "") ELSE g.ss)
                               \o generateCodeFromVarMap(g.varMap),
                  decls |-> g.decls,
                  final |-> InputTexts(OutId, g.varMap)]

\* m_outputNode tested against the node table instead of against null
OutputNodeInTable == OutId \in DOMAIN nodes

\* if (m_outputNode): the pointer is set in the constructor and never reset
OutputNodeSet == TRUE

\* the statement generateFragmentShader writes when m_outputNode is null
FallbackStatement == "    FragColor = vec4(1.0, 0.0, 1.0, 1.0); // Error: No output node"

\* the fixed header of generateFragmentShader
ShaderHeader ==
    << "#version 330 core",
       "out vec4 FragColor;",
       "",
       "in vec3 FragPos;",
       "in vec3 Normal;",
       "in vec2 TexCoord;",
       "",
       "// Built-in uniforms",
       "uniform float time;",
       "uniform vec3 lightPos;",
       "uniform vec3 viewPos;",
       "uniform vec3 lightColor;",
       "uniform vec3 objectColor;",
       "" >>

RECURSIVE ParameterLinesDeclFirst(_)

\* ParameterLines with each comment written after its declaration
ParameterLinesDeclFirst(i) ==
    IF i > Len(m_parameters)
      THEN <<>>
      ELSE << "uniform " \o typeToGLSL(m_parameters[i].type) \o " "
                  \o m_parameters[i].name \o ";",
              "// User parameter: " \o m_parameters[i].displayName >>
              \o ParameterLinesDeclFirst(i + 1)

RECURSIVE ParameterLines(_)

\* the loop over m_parameters of generateFragmentShader, from index i on
ParameterLines(i) ==
    IF i > Len(m_parameters)
      THEN <<>>
      ELSE << "// User parameter: " \o m_parameters[i].displayName,
              "uniform " \o typeToGLSL(m_parameters[i].type) \o " "
                  \o m_parameters[i].name \o ";" >> \o ParameterLines(i + 1)

\* generateFragmentShader: the text as a sequence of lines
generateFragmentShader ==
    LET body == IF OutputNodeSet
                  THEN generateShaderBody
                  ELSE [lines |-> <<FallbackStatement>>, decls |-> <<>>,
                        final |-> <<>>]
    IN IF body = StackOverflow
         THEN StackOverflow
         ELSE [lines |-> ShaderHeader \o ParameterLines(1)
                            \o <<"", "void main()", "{">>
                            \o body.lines \o <<"}">>,
               body |-> body.lines,
               decls |-> body.decls,
               final |-> body.final]

(* ------------------------- parameter collection ------------------------- *)

RECURSIVE collectFrom(_)

\* the loop of collectParameters over the nodes S still to visit
collectFrom(S) ==
    IF S = {}
      THEN <<>>
      ELSE LET n == CHOOSE m \in S : \A k \in S : m <= k
           IN (IF IsParameterNode(KindOf(n)) THEN <<getUniformParameter(n)>> ELSE <<>>)
                 \o collectFrom(S \ {n})

\* collectParameters over the nodes the resolver reaches only
collectParametersReachable == collectFrom(Reachable \cap DOMAIN nodes)

\* collectParameters: the list m_parameters is set to
collectParameters == collectFrom(DOMAIN nodes)

(* --------------------------- editor operations -------------------------- *)

\* the fields of App after its constructor (app.h 56-73)
AppConstructed ==
    /\ m_lastGeneratedCode = <<>>
    /\ m_fragmentShaderSource = <<>>
    /\ m_shaderCompileError = FALSE
    /\ m_shaderProgram = "none"
    /\ m_autoCompile = TRUE
    /\ pc = "init"
    /\ compileCalls = 0
    /\ lastCompile = "none"
    /\ usedProgram = FALSE

Init ==
    /\ AppConstructed
    /\ palette \in Palettes
    /\ nodes = (OutId :> [kind |-> "Output", val |-> 0])
                  @@ (1 :> [kind |-> "Color", val |-> 0])
    /\ links = {[ln |-> 1, lp |-> "RGB", rn |-> OutId, rp |-> "Color"]}
    /\ m_parameters = <<>>
    /\ ret = NoText
    /\ input = <<>> /\ text = <<>> /\ trail = <<>>

\* the id a new node gets
FreshId == CHOOSE n \in NodeIds \ (DOMAIN nodes \cup {OutId}) :
              \A k \in NodeIds \ (DOMAIN nodes \cup {OutId}) : n <= k

\* showAddNodeMenu: m_nodeFlow.placeNode<T>()
AddNode(kind) ==
    /\ Cardinality(DOMAIN nodes \ {OutId}) < MaxNodes
    /\ nodes' = (FreshId :> [kind |-> kind, val |-> 0]) @@ nodes
    /\ ret' = NoText
    /\ UNCHANGED <<langVars, appVars, palette, links, m_parameters>>

\* the links left when node n is taken out of the node table: the pins of a
\* destroyed node drop their links; the output node object stays alive through
\* m_outputNode, and so do its pins and the links into them
LinksAfterDestroy(n) ==
    IF n = OutId THEN links ELSE {l \in links : l.ln # n /\ l.rn # n}

\* the "Delete Node" item of the node context menu: node->destroy()
DeleteNode(n) ==
    /\ n \in DOMAIN nodes
    /\ nodes' = [m \in DOMAIN nodes \ {n} |-> nodes[m]]
    /\ links' = LinksAfterDestroy(n)
    /\ ret' = NoText
    /\ UNCHANGED <<langVars, appVars, palette, m_parameters>>

\* the connection filter of input pin (rn, rp) applied to output pin (ln, lp)
FilterAccepts(ln, lp, rn, rp) ==
    \/ PinFilter(KindOf(rn)) = "None"
    \/ PinDataType(KindOf(ln), lp) = PinDataType(KindOf(rn), rp)

\* LinksAfterCreate that leaves the previous link of the input pin in place
LinksAfterCreateKeepOld(ln, lp, rn, rp) ==
    links \cup {[ln |-> ln, lp |-> lp, rn |-> rn, rp |-> rp]}

\* the links after a link from (ln, lp) into (rn, rp) is made: the input pin
\* holds one link, the new one
LinksAfterCreate(ln, lp, rn, rp) ==
    (links \ LinksInto(rn, rp)) \cup {[ln |-> ln, lp |-> lp, rn |-> rn, rp |-> rp]}

\* outPin->createLink(inPin), as in the constructor and when a link is dragged
CreateLink(ln, lp, rn, rp) ==
    /\ ln \in DOMAIN nodes /\ rn \in DOMAIN nodes
    /\ ln # rn
    /\ lp \in Range(OutPins(KindOf(ln)))
    /\ rp \in Range(InPins(KindOf(rn)))
    /\ [ln |-> ln, lp |-> lp, rn |-> rn, rp |-> rp] \notin links
    /\ FilterAccepts(ln, lp, rn, rp)
    /\ Cardinality(LinksAfterCreate(ln, lp, rn, rp)) <= MaxLinks
    /\ links' = LinksAfterCreate(ln, lp, rn, rp)
    /\ ret' = NoText
    /\ UNCHANGED <<langVars, appVars, palette, nodes, m_parameters>>

\* the link of an input pin is deleted (the link is selected and deleted, or
\* the same link is dragged again)
RemoveLink(rn, rp) ==
    /\ IsConnected(rn, rp)
    /\ links' = links \ LinksInto(rn, rp)
    /\ ret' = NoText
    /\ UNCHANGED <<langVars, appVars, palette, nodes, m_parameters>>

\* FloatNode::draw: the drag field changes m_value
SetFloatValue(n, v) ==
    /\ n \in DOMAIN nodes
    /\ nodes[n].kind = "Float"
    /\ nodes[n].val # v
    /\ nodes' = [nodes EXCEPT ![n].val = v]
    /\ ret' = NoText
    /\ UNCHANGED <<langVars, appVars, palette, links, m_parameters>>

\* the parameter node setParameterValue finds for uniformName: the first one
\* of the node table whose uniform name is uniformName
ParameterOwner(uniformName) ==
    LET owners == {n \in DOMAIN nodes :
                      /\ IsParameterNode(KindOf(n))
                      /\ getUniformParameter(n).name = uniformName}
    IN IF owners = {}
         THEN {}
         ELSE {CHOOSE n \in owners : \A k \in owners : n <= k}

\* setUniformValue of every parameter node, whatever its name
setUniformValueAll(n, v) ==
    [m \in DOMAIN nodes |->
        IF IsParameterNode(KindOf(m)) THEN [nodes[m] EXCEPT !.val = v] ELSE nodes[m]]

\* setUniformValue(param) on parameter node n: the node takes the value
setUniformValue(n, v) == [nodes EXCEPT ![n].val = v]

\* ShaderGraphEditor::setParameterValue
setParameterValue(uniformName, v) ==
    /\ nodes' = IF ParameterOwner(uniformName) = {}
                  THEN nodes
                  ELSE setUniformValue(CHOOSE n \in ParameterOwner(uniformName) : TRUE, v)
    /\ ret' = NoText
    /\ UNCHANGED <<langVars, appVars, palette, links, m_parameters>>

\* the uniform names setParameterValue is called with
UniformNames == {"param" \o ToString(n) : n \in NodeIds}

\* ShaderGraphEditor::update
Update ==
    /\ m_parameters' = collectParameters
    /\ ret' = NoText
    /\ UNCHANGED <<langVars, appVars, palette, nodes, links>>

\* a call of generateFragmentShader
Generate ==
    /\ ret' = generateFragmentShader
    /\ UNCHANGED <<langVars, appVars, palette, nodes, links, m_parameters>>

Next ==
    \/ \E kind \in palette : AddNode(kind)
    \/ \E n \in DOMAIN nodes : DeleteNode(n)
    \/ \E ln \in DOMAIN nodes, rn \in DOMAIN nodes :
          \E lp \in Range(OutPins(KindOf(ln))), rp \in Range(InPins(KindOf(rn))) :
             CreateLink(ln, lp, rn, rp)
    \/ \E l \in links : RemoveLink(l.rn, l.rp)
    \/ \E n \in DOMAIN nodes, v \in FloatValues : SetFloatValue(n, v)
    \/ \E uniformName \in UniformNames, v \in FloatValues :
          setParameterValue(uniformName, v)
    \/ Update
    \/ Generate

Spec == Init /\ [][Next]_vars

(* ------------------------- app.cpp: the App ----------------------------- *)

\* the kinds placed through the add-node menu in a session with the App
AppPalette == {"Time"}

\* how a compileShaders call can end: every stage passes, or the vertex
\* shader, the fragment shader or the link fails
CompileOutcomes == {"ok", "vertex", "fragment", "link"}

\* the test of updateShaderFromGraph taken as true on every call
CodeChangedAlways(newCode) == TRUE

\* newCode != m_lastGeneratedCode
CodeChanged(newCode) == newCode # m_lastGeneratedCode

\* App::compileShaders, ending as outcome says: the old program is deleted; a
\* failed shader compilation returns before glCreateProgram, a link sets the
\* handle to the new program whether or not it succeeds
compileShaders(outcome) ==
    /\ m_shaderCompileError' = (outcome # "ok")
    /\ m_shaderProgram' =
          CASE outcome \in {"vertex", "fragment"} ->
                  (IF m_shaderProgram = "none" THEN "none" ELSE "deleted")
            [] outcome = "link" -> "unlinked"
            [] OTHER -> "linked"
    /\ compileCalls' = 1 - compileCalls
    /\ lastCompile' = outcome

\* App::updateShaderFromGraph, with newCode held in ret'; a
\* generateFragmentShader call that overflows the stack ends the process, so
\* the call has no next state
updateShaderFromGraph ==
    /\ ret' = generateFragmentShader
    /\ ret' # StackOverflow
    /\ IF CodeChanged(ret'.lines)
         THEN /\ m_lastGeneratedCode' = ret'.lines
              /\ m_fragmentShaderSource' = ret'.lines
              /\ \E outcome \in CompileOutcomes : compileShaders(outcome)
         ELSE UNCHANGED <<m_lastGeneratedCode, m_fragmentShaderSource,
                          m_shaderCompileError, m_shaderProgram,
                          compileCalls, lastCompile>>

\* App::init from initShaderGraph on: the first updateShaderFromGraph call
init ==
    /\ pc = "init"
    /\ updateShaderFromGraph
    /\ pc' = "renderCubeToTexture"
    /\ UNCHANGED <<langVars, palette, nodes, links, m_parameters, m_autoCompile,
                   usedProgram>>

\* App::renderCubeToTexture: glUseProgram and the draw call are made under
\* m_shaderProgram && !m_shaderCompileError
renderCubeToTexture ==
    /\ pc = "renderCubeToTexture"
    /\ usedProgram' = (m_shaderProgram # "none" /\ ~m_shaderCompileError)
    /\ pc' = "renderNodeGraphWindow"
    /\ UNCHANGED <<langVars, graphVars, m_lastGeneratedCode, m_fragmentShaderSource,
                   m_shaderCompileError, m_shaderProgram, m_autoCompile,
                   compileCalls, lastCompile>>

\* an operation on the graph made inside m_shaderGraph->update() of
\* renderNodeGraphWindow
GraphOperation ==
    /\ pc = "renderNodeGraphWindow"
    /\ \/ \E kind \in palette : AddNode(kind)
       \/ \E n \in DOMAIN nodes : DeleteNode(n)
       \/ \E ln \in DOMAIN nodes, rn \in DOMAIN nodes :
             \E lp \in Range(OutPins(KindOf(ln))), rp \in Range(InPins(KindOf(rn))) :
                CreateLink(ln, lp, rn, rp)
       \/ \E l \in links : RemoveLink(l.rn, l.rp)

\* renderNodeGraphWindow: the end of m_shaderGraph->update() (collectParameters)
renderNodeGraphWindowUpdate ==
    /\ pc = "renderNodeGraphWindow"
    /\ m_parameters' = collectParameters
    /\ ret' = NoText
    /\ pc' = "autoCompile"
    /\ UNCHANGED <<langVars, palette, nodes, links, m_lastGeneratedCode,
                   m_fragmentShaderSource, m_shaderCompileError, m_shaderProgram,
                   m_autoCompile, compileCalls, lastCompile, usedProgram>>

\* renderNodeGraphWindow: if (m_autoCompile) updateShaderFromGraph()
renderNodeGraphWindowCompile ==
    /\ pc = "autoCompile"
    /\ IF m_autoCompile
         THEN updateShaderFromGraph
         ELSE UNCHANGED <<ret, m_lastGeneratedCode, m_fragmentShaderSource,
                          m_shaderCompileError, m_shaderProgram, compileCalls,
                          lastCompile>>
    /\ pc' = "renderShaderEditorWindow"
    /\ UNCHANGED <<langVars, palette, nodes, links, m_parameters, m_autoCompile,
                   usedProgram>>

\* renderShaderEditorWindow: the checkbox is clicked, "Compile Now" is pressed,
\* or neither
renderShaderEditorWindow ==
    /\ pc = "renderShaderEditorWindow"
    /\ \E ui \in {"none", "checkbox", "button"} :
          /\ m_autoCompile' = IF ui = "checkbox" THEN ~m_autoCompile ELSE m_autoCompile
          /\ IF ui = "button"
               THEN updateShaderFromGraph
               ELSE UNCHANGED <<ret, m_lastGeneratedCode, m_fragmentShaderSource,
                                m_shaderCompileError, m_shaderProgram,
                                compileCalls, lastCompile>>
    /\ pc' = "renderCubeToTexture"
    /\ UNCHANGED <<langVars, palette, nodes, links, m_parameters, usedProgram>>

AppInit ==
    /\ AppConstructed
    /\ palette = AppPalette
    /\ nodes = (OutId :> [kind |-> "Output", val |-> 0])
                  @@ (1 :> [kind |-> "Color", val |-> 0])
    /\ links = {[ln |-> 1, lp |-> "RGB", rn |-> OutId, rp |-> "Color"]}
    /\ m_parameters = <<>>
    /\ ret = NoText
    /\ input = <<>> /\ text = <<>> /\ trail = <<>>

AppNext ==
    \/ init
    \/ renderCubeToTexture
    \/ GraphOperation
    \/ renderNodeGraphWindowUpdate
    \/ renderNodeGraphWindowCompile
    \/ renderShaderEditorWindow

SpecApp == AppInit /\ [][AppNext]_vars

(* ----------------- shader_lang.h: HLSL / GLSL converters ---------------- *)

\* conversions applied to one input text
MaxConversions == 2

\* typeMap of HLSLtoGLSLConverter::convertTypes listed last entry first
HLSLTypeMapShortestFirst ==
    << <<<<"b", "o", "o", "l", "2">>, <<"b", "v", "e", "c", "2">>>>,
       <<<<"b", "o", "o", "l", "3">>, <<"b", "v", "e", "c", "3">>>>,
       <<<<"b", "o", "o", "l", "4">>, <<"b", "v", "e", "c", "4">>>>,
       <<<<"u", "i", "n", "t", "2">>, <<"u", "v", "e", "c", "2">>>>,
       <<<<"u", "i", "n", "t", "3">>, <<"u", "v", "e", "c", "3">>>>,
       <<<<"u", "i", "n", "t", "4">>, <<"u", "v", "e", "c", "4">>>>,
       <<<<"i", "n", "t", "2">>, <<"i", "v", "e", "c", "2">>>>,
       <<<<"i", "n", "t", "3">>, <<"i", "v", "e", "c", "3">>>>,
       <<<<"i", "n", "t", "4">>, <<"i", "v", "e", "c", "4">>>>,
       <<<<"h", "a", "l", "f">>, <<"f", "l", "o", "a", "t">>>>,
       <<<<"h", "a", "l", "f", "2">>, <<"v", "e", "c", "2">>>>,
       <<<<"h", "a", "l", "f", "3">>, <<"v", "e", "c", "3">>>>,
       <<<<"h", "a", "l", "f", "4">>, <<"v", "e", "c", "4">>>>,
       <<<<"f", "l", "o", "a", "t", "2">>, <<"v", "e", "c", "2">>>>,
       <<<<"f", "l", "o", "a", "t", "3">>, <<"v", "e", "c", "3">>>>,
       <<<<"f", "l", "o", "a", "t", "4">>, <<"v", "e", "c", "4">>>>,
       <<<<"f", "l", "o", "a", "t", "2", "x", "2">>, <<"m", "a", "t", "2">>>>,
       <<<<"f", "l", "o", "a", "t", "3", "x", "3">>, <<"m", "a", "t", "3">>>>,
       <<<<"f", "l", "o", "a", "t", "4", "x", "4">>, <<"m", "a", "t", "4">>>> >>

\* typeMap of HLSLtoGLSLConverter::convertTypes, in list order
HLSLTypeMap ==
    << <<<<"f", "l", "o", "a", "t", "4", "x", "4">>, <<"m", "a", "t", "4">>>>,
       <<<<"f", "l", "o", "a", "t", "3", "x", "3">>, <<"m", "a", "t", "3">>>>,
       <<<<"f", "l", "o", "a", "t", "2", "x", "2">>, <<"m", "a", "t", "2">>>>,
       <<<<"f", "l", "o", "a", "t", "4">>, <<"v", "e", "c", "4">>>>,
       <<<<"f", "l", "o", "a", "t", "3">>, <<"v", "e", "c", "3">>>>,
       <<<<"f", "l", "o", "a", "t", "2">>, <<"v", "e", "c", "2">>>>,
       <<<<"h", "a", "l", "f", "4">>, <<"v", "e", "c", "4">>>>,
       <<<<"h", "a", "l", "f", "3">>, <<"v", "e", "c", "3">>>>,
       <<<<"h", "a", "l", "f", "2">>, <<"v", "e", "c", "2">>>>,
       <<<<"h", "a", "l", "f">>, <<"f", "l", "o", "a", "t">>>>,
       <<<<"i", "n", "t", "4">>, <<"i", "v", "e", "c", "4">>>>,
       <<<<"i", "n", "t", "3">>, <<"i", "v", "e", "c", "3">>>>,
       <<<<"i", "n", "t", "2">>, <<"i", "v", "e", "c", "2">>>>,
       <<<<"u", "i", "n", "t", "4">>, <<"u", "v", "e", "c", "4">>>>,
       <<<<"u", "i", "n", "t", "3">>, <<"u", "v", "e", "c", "3">>>>,
       <<<<"u", "i", "n", "t", "2">>, <<"u", "v", "e", "c", "2">>>>,
       <<<<"b", "o", "o", "l", "4">>, <<"b", "v", "e", "c", "4">>>>,
       <<<<"b", "o", "o", "l", "3">>, <<"b", "v", "e", "c", "3">>>>,
       <<<<"b", "o", "o", "l", "2">>, <<"b", "v", "e", "c", "2">>>> >>

\* funcMap of HLSLtoGLSLConverter::convertFunctions, in list order
HLSLFuncMap ==
    << <<<<"l", "e", "r", "p">>, <<"m", "i", "x">>>>,
       <<<<"f", "r", "a", "c">>, <<"f", "r", "a", "c", "t">>>>,
       <<<<"d", "d", "x">>, <<"d", "F", "d", "x">>>>,
       <<<<"d", "d", "y">>, <<"d", "F", "d", "y">>>>,
       <<<<"d", "d", "x", "_", "c", "o", "a", "r", "s", "e">>, <<"d", "F", "d", "x">>>>,
       <<<<"d", "d", "y", "_", "c", "o", "a", "r", "s", "e">>, <<"d", "F", "d", "y">>>>,
       <<<<"d", "d", "x", "_", "f", "i", "n", "e">>, <<"d", "F", "d", "x">>>>,
       <<<<"d", "d", "y", "_", "f", "i", "n", "e">>, <<"d", "F", "d", "y">>>>,
       <<<<"a", "t", "a", "n", "2">>, <<"a", "t", "a", "n">>>>,
       <<<<"r", "s", "q", "r", "t">>, <<"i", "n", "v", "e", "r", "s", "e", "s", "q", "r", "t">>>>,
       <<<<"f", "m", "o", "d">>, <<"m", "o", "d">>>>,
       <<<<"c", "l", "i", "p">>, <<"d", "i", "s", "c", "a", "r", "d">>>>,
       <<<<"m", "u", "l">>, <<"m", "a", "t", "r", "i", "x", "C", "o", "m", "p", "M", "u", "l", "t">>>> >>

\* typeMap of GLSLtoHLSLConverter made by turning round the entries of the
\* other converter's typeMap, last entry first
InvertedHLSLTypeMap ==
    [i \in 1 .. Len(HLSLTypeMap) |->
        <<HLSLTypeMap[Len(HLSLTypeMap) + 1 - i][2],
          HLSLTypeMap[Len(HLSLTypeMap) + 1 - i][1]>>]

\* typeMap of GLSLtoHLSLConverter::convertTypes, in list order
GLSLTypeMap ==
    << <<<<"m", "a", "t", "4">>, <<"f", "l", "o", "a", "t", "4", "x", "4">>>>,
       <<<<"m", "a", "t", "3">>, <<"f", "l", "o", "a", "t", "3", "x", "3">>>>,
       <<<<"m", "a", "t", "2">>, <<"f", "l", "o", "a", "t", "2", "x", "2">>>>,
       <<<<"v", "e", "c", "4">>, <<"f", "l", "o", "a", "t", "4">>>>,
       <<<<"v", "e", "c", "3">>, <<"f", "l", "o", "a", "t", "3">>>>,
       <<<<"v", "e", "c", "2">>, <<"f", "l", "o", "a", "t", "2">>>>,
       <<<<"i", "v", "e", "c", "4">>, <<"i", "n", "t", "4">>>>,
       <<<<"i", "v", "e", "c", "3">>, <<"i", "n", "t", "3">>>>,
       <<<<"i", "v", "e", "c", "2">>, <<"i", "n", "t", "2">>>>,
       <<<<"u", "v", "e", "c", "4">>, <<"u", "i", "n", "t", "4">>>>,
       <<<<"u", "v", "e", "c", "3">>, <<"u", "i", "n", "t", "3">>>>,
       <<<<"u", "v", "e", "c", "2">>, <<"u", "i", "n", "t", "2">>>>,
       <<<<"b", "v", "e", "c", "4">>, <<"b", "o", "o", "l", "4">>>>,
       <<<<"b", "v", "e", "c", "3">>, <<"b", "o", "o", "l", "3">>>>,
       <<<<"b", "v", "e", "c", "2">>, <<"b", "o", "o", "l", "2">>>> >>

\* funcMap of GLSLtoHLSLConverter::convertFunctions, in list order
GLSLFuncMap ==
    << <<<<"m", "i", "x">>, <<"l", "e", "r", "p">>>>,
       <<<<"f", "r", "a", "c", "t">>, <<"f", "r", "a", "c">>>>,
       <<<<"d", "F", "d", "x">>, <<"d", "d", "x">>>>,
       <<<<"d", "F", "d", "y">>, <<"d", "d", "y">>>>,
       <<<<"i", "n", "v", "e", "r", "s", "e", "s", "q", "r", "t">>, <<"r", "s", "q", "r", "t">>>>,
       <<<<"m", "o", "d">>, <<"f", "m", "o", "d">>>> >>

\* shader text fragments that are not a single mapped token
OtherTexts ==
    { <<"m", "y", "f", "l", "o", "a", "t", "3">>,
      <<"f", "l", "o", "a", "t", "3", "x">>,
      <<"l", "e", "r", "p", "e", "d">>,
      <<"s", "a", "t", "u", "r", "a", "t", "e", "(", "x", ")">>,
      <<"s", "a", "t", "u", "r", "a", "t", "e", "(", " ", "x", " ", ")">>,
      <<"s", "a", "t", "u", "r", "a", "t", "e", "(", "d", "o", "t", "(", "a", ",", " ", "b", ")", ")">>,
      <<"s", "a", "t", "u", "r", "a", "t", "e", " ", "(", ")">>,
      <<"s", "a", "t", "u", "r", "a", "t", "e", "(", "s", "a", "t", "u", "r", "a", "t", "e", "(", "x", ")", ")">>,
      <<"f", "l", "o", "a", "t", "4", " ", "p", "o", "s", " ", ":", " ", "S", "V", "_", "P", "O", "S", "I", "T", "I", "O", "N", ";">>,
      <<"f", "l", "o", "a", "t", "2", " ", "u", "v", ":", "T", "E", "X", "C", "O", "O", "R", "D", "0", ";">>,
      <<"t", "e", "x", "2", "D", "(", "s", ",", " ", "u", "v", ")">>,
      <<"f", "l", "o", "a", "t", "3", " ", "c", " ", "=", " ", "l", "e", "r", "p", "(", "a", ",", " ", "b", ",", " ", "t", ")", ";">>,
      <<"x", ".", "f", "l", "o", "a", "t", "3">>,
      <<"v", "e", "c", "3", " ", "c", " ", "=", " ", "m", "i", "x", "(", "a", ",", " ", "b", ",", " ", "t", ")", ";">>,
      <<"h", "a", "l", "f", "3", " ", "h", " ", "=", " ", "f", "r", "a", "c", "(", "v", ")", ";">> }


Letters ==
    {"a", "b", "c", "d", "e", "f", "g", "h", "i", "j", "k", "l", "m", "n", "o",
     "p", "q", "r", "s", "t", "u", "v", "w", "x", "y", "z",
     "A", "B", "C", "D", "E", "F", "G", "H", "I", "J", "K", "L", "M", "N", "O",
     "P", "Q", "R", "S", "T", "U", "V", "W", "X", "Y", "Z"}

\* \d of std::regex
Digits == {"0", "1", "2", "3", "4", "5", "6", "7", "8", "9"}

\* \w of std::regex
IsWordChar(c) == c \in Letters \cup Digits \cup {"_"}

\* \s of std::regex
IsSpace(c) == c \in {" ", "\t", "\n", "\r", "\f"}

\* position k of t holds a word character (positions outside t do not)
WordAt(t, k) == k >= 1 /\ k <= Len(t) /\ IsWordChar(t[k])

\* \b of std::regex between positions i - 1 and i of t
WordBoundary(t, i) == WordAt(t, i - 1) # WordAt(t, i)

\* word occurs in t at position i
OccursAt(t, i, word) ==
    /\ i + Len(word) - 1 <= Len(t)
    /\ SubSeq(t, i, i + Len(word) - 1) = word

\* OccursAt, leaving out the word boundaries
MatchesAnywhereAt(t, i, from) == OccursAt(t, i, from)

\* MatchesWordAt with the \b after the word left out
MatchesWordAtLeftOnly(t, i, from) ==
    /\ OccursAt(t, i, from)
    /\ WordBoundary(t, i)

\* the regex "\\b" + from + "\\b" matches in t at position i
MatchesWordAt(t, i, from) ==
    /\ OccursAt(t, i, from)
    /\ WordBoundary(t, i)
    /\ WordBoundary(t, i + Len(from))

RECURSIVE ReplaceWordFrom(_, _, _, _)

\* std::regex_replace of the word regex from position i of t on
ReplaceWordFrom(t, i, from, to) ==
    IF i > Len(t)
      THEN <<>>
      ELSE IF MatchesWordAt(t, i, from)
        THEN to \o ReplaceWordFrom(t, i + Len(from), from, to)
        ELSE <<t[i]>> \o ReplaceWordFrom(t, i + 1, from, to)

\* replaceWord of both converters
replaceWord(t, from, to) == ReplaceWordFrom(t, 1, from, to)

RECURSIVE ApplyMap(_, _, _)

\* the loop over a map that applies replaceWord for each entry, from entry k on
\* (the length test has each result evaluated before the next entry is applied)
ApplyMap(t, map, k) ==
    IF k > Len(map)
      THEN t
      ELSE LET replaced == replaceWord(t, map[k][1], map[k][2])
           IN IF Len(replaced) >= 0 THEN ApplyMap(replaced, map, k + 1) ELSE t

RECURSIVE SkipSpaces(_, _)

\* the position after a greedy \s* that starts at position i of t
SkipSpaces(t, i) ==
    IF i <= Len(t) /\ IsSpace(t[i]) THEN SkipSpaces(t, i + 1) ELSE i

RECURSIVE SkipWhile(_, _, _)

\* the position after the longest run of characters of set cs from position i
SkipWhile(t, i, cs) ==
    IF i <= Len(t) /\ t[i] \in cs THEN SkipWhile(t, i + 1, cs) ELSE i

RECURSIVE FirstAt(_, _, _)

\* the first position >= i of t that holds character c, or 0
FirstAt(t, i, c) ==
    IF i > Len(t) THEN 0 ELSE IF t[i] = c THEN i ELSE FirstAt(t, i + 1, c)

\* the match of saturate\s*\(\s*([^)]+)\s*\) at position i of t:
\* [from, to] is the capture group and close the position of the final ")";
\* close = 0 when the regex does not match at i
SaturateMatch(t, i) ==
    LET word == <<"s", "a", "t", "u", "r", "a", "t", "e">>
        open == SkipSpaces(t, i + Len(word))
        first == SkipSpaces(t, open + 1)
        close == FirstAt(t, open + 1, ")")
    IN IF ~OccursAt(t, i, word) \/ open > Len(t) \/ t[open] # "("
            \/ close = 0 \/ close = open + 1
         THEN [close |-> 0, from |-> 0, to |-> 0]
         ELSE [close |-> close,
               from |-> IF first < close THEN first ELSE close - 1,
               to |-> close - 1]

RECURSIVE SaturateFrom(_, _)

\* std::regex_replace of saturateRegex by "clamp($1, 0.0, 1.0)" from position i on
SaturateFrom(t, i) ==
    IF i > Len(t)
      THEN <<>>
      ELSE LET m == SaturateMatch(t, i)
           IN IF m.close # 0
                THEN <<"c", "l", "a", "m", "p", "(">> \o SubSeq(t, m.from, m.to)
                        \o <<",", " ", "0", ".", "0", ",", " ", "1", ".", "0", ")">>
                        \o SaturateFrom(t, m.close + 1)
                ELSE <<t[i]>> \o SaturateFrom(t, i + 1)

\* HLSLtoGLSLConverter::convertSaturate
convertSaturate(t) == SaturateFrom(t, 1)

\* the alternatives of semanticRegex that are a name followed by \d*
SemanticNames ==
    << <<"P", "O", "S", "I", "T", "I", "O", "N">>,
       <<"T", "E", "X", "C", "O", "O", "R", "D">>,
       <<"N", "O", "R", "M", "A", "L">>,
       <<"C", "O", "L", "O", "R">>,
       <<"T", "A", "N", "G", "E", "N", "T">>,
       <<"B", "I", "N", "O", "R", "M", "A", "L">> >>

\* SemanticNameEnd without the \d* after a semantic name
SemanticNameEndNoDigits(t, i) ==
    LET sv == <<"S", "V", "_">>
        named == {k \in 1 .. Len(SemanticNames) : OccursAt(t, i, SemanticNames[k])}
    IN IF OccursAt(t, i, sv) /\ WordAt(t, i + Len(sv))
         THEN SkipWhile(t, i + Len(sv), Letters \cup Digits \cup {"_"})
         ELSE IF named # {}
           THEN LET k == CHOOSE j \in named : \A j2 \in named : j <= j2
                IN i + Len(SemanticNames[k])
           ELSE 0

\* the position after the match of (SV_\w+|POSITION\d*|...) at position i of t,
\* or 0 when no alternative matches there
SemanticNameEnd(t, i) ==
    LET sv == <<"S", "V", "_">>
        named == {k \in 1 .. Len(SemanticNames) : OccursAt(t, i, SemanticNames[k])}
    IN IF OccursAt(t, i, sv) /\ WordAt(t, i + Len(sv))
         THEN SkipWhile(t, i + Len(sv), Letters \cup Digits \cup {"_"})
         ELSE IF named # {}
           THEN LET k == CHOOSE j \in named : \A j2 \in named : j <= j2
                IN SkipWhile(t, i + Len(SemanticNames[k]), Digits)
           ELSE 0

\* the position after the match of semanticRegex at position i of t, or 0
SemanticMatchEnd(t, i) ==
    LET colon == SkipSpaces(t, i)
    IN IF colon > Len(t) \/ t[colon] # ":"
         THEN 0
         ELSE SemanticNameEnd(t, SkipSpaces(t, colon + 1))

RECURSIVE SemanticsFrom(_, _)

\* std::regex_replace of semanticRegex by "" from position i on
SemanticsFrom(t, i) ==
    IF i > Len(t)
      THEN <<>>
      ELSE IF SemanticMatchEnd(t, i) # 0
        THEN SemanticsFrom(t, SemanticMatchEnd(t, i))
        ELSE <<t[i]>> \o SemanticsFrom(t, i + 1)

\* HLSLtoGLSLConverter::convertSemantics
convertSemantics(t) == SemanticsFrom(t, 1)

RECURSIVE TextureFrom(_, _)

\* std::regex_replace of tex2D\s*\( by "texture(" from position i on
TextureFrom(t, i) ==
    LET word == <<"t", "e", "x", "2", "D">>
        open == SkipSpaces(t, i + Len(word))
    IN IF i > Len(t)
         THEN <<>>
         ELSE IF OccursAt(t, i, word) /\ open <= Len(t) /\ t[open] = "("
           THEN <<"t", "e", "x", "t", "u", "r", "e", "(">> \o TextureFrom(t, open + 1)
           ELSE <<t[i]>> \o TextureFrom(t, i + 1)

\* HLSLtoGLSLConverter::convertTextureSampling
convertTextureSampling(t) == TextureFrom(t, 1)

\* HLSLtoGLSLConverter::convertSwizzle
convertSwizzle(t) == t

\* HLSLtoGLSLConverter::convertTypes
HLSLconvertTypes(t) == ApplyMap(t, HLSLTypeMap, 1)

\* HLSLtoGLSLConverter::convertFunctions
HLSLconvertFunctions(t) == convertSaturate(ApplyMap(t, HLSLFuncMap, 1))

\* HLSLtoGLSLConverter::convert
HLSLtoGLSL(t) ==
    convertSwizzle(convertTextureSampling(convertSemantics(
        HLSLconvertFunctions(HLSLconvertTypes(t)))))

\* GLSLtoHLSLConverter::convertTypes
GLSLconvertTypes(t) == ApplyMap(t, GLSLTypeMap, 1)

\* GLSLtoHLSLConverter::convertFunctions
GLSLconvertFunctions(t) == ApplyMap(t, GLSLFuncMap, 1)

\* GLSLtoHLSLConverter::convert
GLSLtoHLSL(t) == GLSLconvertFunctions(GLSLconvertTypes(t))

\* the first and the second components of the entries of a map
Keys(map) == {map[k][1] : k \in 1 .. Len(map)}

Values(map) == {map[k][2] : k \in 1 .. Len(map)}

\* semantic annotations of the forms convertSemantics strips
SemanticAnnotations ==
    { <<" ", ":", " ", "S", "V", "_", "P", "O", "S", "I", "T", "I", "O", "N">>,
      <<":", "S", "V", "_", "T", "a", "r", "g", "e", "t", "0">>,
      <<":", " ", "P", "O", "S", "I", "T", "I", "O", "N">>,
      <<":", " ", "P", "O", "S", "I", "T", "I", "O", "N", "0">>,
      <<":", " ", "T", "E", "X", "C", "O", "O", "R", "D", "0">>,
      <<":", " ", " ", "T", "E", "X", "C", "O", "O", "R", "D", "1", "2">>,
      <<":", " ", "N", "O", "R", "M", "A", "L">>,
      <<":", " ", "N", "O", "R", "M", "A", "L", "3">>,
      <<":", " ", "C", "O", "L", "O", "R", "0">>,
      <<":", " ", "C", "O", "L", "O", "R">>,
      <<" ", ":", " ", "T", "A", "N", "G", "E", "N", "T">>,
      <<":", " ", "T", "A", "N", "G", "E", "N", "T", "1">>,
      <<":", " ", "B", "I", "N", "O", "R", "M", "A", "L">>,
      <<":", " ", "B", "I", "N", "O", "R", "M", "A", "L", "2">> }

\* a declaration with semantic annotation ann
AnnotatedDeclaration(ann) ==
    <<"f", "l", "o", "a", "t", "4", " ", "p">> \o ann \o <<";">>

\* declarations with a semantic annotation, given to HLSLtoGLSLConverter::convert
SemanticTexts == {AnnotatedDeclaration(ann) : ann \in SemanticAnnotations}

\* the keys of the maps of HLSLtoGLSLConverter and of GLSLtoHLSLConverter
HLSLKeys == Keys(HLSLTypeMap) \cup Keys(HLSLFuncMap)

GLSLKeys == Keys(GLSLTypeMap) \cup Keys(GLSLFuncMap)

\* identifiers that hold the name k as a proper substring
Affixed(k) == {<<"m", "y">> \o k, k \o <<"x">>, k \o <<"e", "d">>}

\* a text with two whole-word occurrences of the name k
InContext(k) == <<"(">> \o k \o <<",", " ">> \o k \o <<")">>

\* identifiers and whole-word occurrences given to the converters
WordTexts ==
    UNION {Affixed(k) \cup {InContext(k)} : k \in HLSLKeys \cup GLSLKeys}

\* the texts handed to the converters
LangInputs ==
    Keys(HLSLTypeMap) \cup Keys(HLSLFuncMap) \cup Keys(GLSLTypeMap)
        \cup Keys(GLSLFuncMap) \cup Values(HLSLTypeMap) \cup OtherTexts
        \cup SemanticTexts \cup WordTexts

LangInit ==
    /\ AppConstructed
    /\ palette = {"Float", "MakeVec3"}
    /\ nodes = (OutId :> [kind |-> "Output", val |-> 0])
                  @@ (1 :> [kind |-> "Color", val |-> 0])
    /\ links = {[ln |-> 1, lp |-> "RGB", rn |-> OutId, rp |-> "Color"]}
    /\ m_parameters = <<>>
    /\ ret = NoText
    /\ input \in LangInputs
    /\ text = input
    /\ trail = <<>>

\* a call of HLSLtoGLSLConverter::convert on the current text
ToGLSL ==
    /\ Len(trail) < MaxConversions
    /\ text' = HLSLtoGLSL(text)
    /\ trail' = Append(trail, "HLSLtoGLSL")
    /\ UNCHANGED <<graphVars, appVars, input>>

\* a call of GLSLtoHLSLConverter::convert on the current text
ToHLSL ==
    /\ Len(trail) < MaxConversions
    /\ text' = GLSLtoHLSL(text)
    /\ trail' = Append(trail, "GLSLtoHLSL")
    /\ UNCHANGED <<graphVars, appVars, input>>

LangNext == ToGLSL \/ ToHLSL

SpecLang == LangInit /\ [][LangNext]_vars

(* ------------------------------ properties ------------------------------ *)

\* ret holds program text (the last call was a generateFragmentShader that returned)
IsText(r) == r # NoText /\ r # StackOverflow

\* link l lies on a cycle: its left node depends on its right node
OnCycle(l) == l.rn \in UpClosure({l.ln})

\* the positions of node n in sequence s
Positions(s, n) == {i \in 1 .. Len(s) : s[i] = n}

\* the links from output pin (x, q) into input pins of nodes that are generated
Consumers(x, q) == {l \in links : l.ln = x /\ l.lp = q /\ l.rn \in Reachable}

\* the declarations generation r made for output pin (x, q)
DeclsFor(r, x, q) ==
    {i \in 1 .. Len(r.decls) : r.decls[i].node = x /\ r.decls[i].pin = q}

\* the texts generation r put at the use site of input pin (n, p)
SiteTexts(r, n, p) ==
    IF n = OutId
      THEN {r.final[p]}
      ELSE {r.decls[i].args[p] : i \in {j \in 1 .. Len(r.decls) : r.decls[j].node = n}}

\* C1: for every link X -> Y between nodes reachable from the output node that
\* lies on no cycle, X and Y are in the sequence topologicalSort returns and
\* every occurrence of X comes before every occurrence of Y.
C1_TopologicalOrder ==
    \A l \in links :
        (l.ln \in Reachable /\ l.rn \in Reachable /\ ~OnCycle(l)) =>
            /\ Positions(topologicalSort, l.ln) # {}
            /\ Positions(topologicalSort, l.rn) # {}
            /\ \A i \in Positions(topologicalSort, l.ln),
                  j \in Positions(topologicalSort, l.rn) : i < j

\* a node feeds both another generated node and the output node, without a cycle
C1_Witness ==
    \E l \in links, k \in links :
        /\ l.rn # OutId /\ l.rn \in Reachable /\ ~OnCycle(l)
        /\ k.ln = l.ln /\ k.rn = OutId

\* the nodes that lie on a link cycle among the nodes reachable from the output
CycleNodes == {l.ln : l \in {k \in links : k.ln \in Reachable /\ OnCycle(k)}}

\* C2: for a graph with a link cycle among the reachable nodes, topologicalSort
\* returns (its on-stack set emptied) a sequence of reachable nodes that holds
\* each node of the cycle at most once.
C2_CycleExclusion ==
    CycleNodes # {} =>
        /\ topologicalSortState.inStack = {}
        /\ \A i \in 1 .. Len(topologicalSort) : topologicalSort[i] \in Reachable
        /\ \A n \in CycleNodes : Cardinality(Positions(topologicalSort, n)) <= 1

\* two nodes feed each other and one of them is reached from the output node
C2_Witness ==
    \E l \in links, k \in links :
        /\ l.ln = k.rn /\ l.rn = k.ln
        /\ l.ln \in Reachable
        /\ Cardinality(CycleNodes) >= 2

\* C3 as stated: an output pin feeding N >= 2 input pins of generated nodes has
\* exactly one declaration and all N use sites hold its variable name.
C3_FanOutHoistingAsStated ==
    IsText(ret) =>
        \A x \in DOMAIN nodes : \A q \in Range(OutPins(KindOf(x))) :
            Cardinality(Consumers(x, q)) >= 2 =>
                /\ Cardinality(DeclsFor(ret, x, q)) = 1
                /\ \A l \in Consumers(x, q), i \in DeclsFor(ret, x, q) :
                      SiteTexts(ret, l.rn, l.rp) = {ret.decls[i].var}

\* C3 amended: an output pin feeding N >= 2 input pins of generated nodes has
\* exactly one declaration, and every use site whose link lies on no cycle
\* holds that declaration's variable name.
C3_FanOutHoisting ==
    IsText(ret) =>
        \A x \in DOMAIN nodes : \A q \in Range(OutPins(KindOf(x))) :
            Cardinality(Consumers(x, q)) >= 2 =>
                /\ Cardinality(DeclsFor(ret, x, q)) = 1
                /\ \A l \in Consumers(x, q), i \in DeclsFor(ret, x, q) :
                      ~OnCycle(l) => SiteTexts(ret, l.rn, l.rp) = {ret.decls[i].var}

\* text was generated for a graph in which a source node's pin feeds two input
\* pins and a non-source node's pin feeds two input pins
C3_Witness ==
    /\ IsText(ret)
    /\ \E x \in DOMAIN nodes : \E q \in Range(OutPins(KindOf(x))) :
          IsSourceNode(KindOf(x)) /\ Cardinality(Consumers(x, q)) >= 2
    /\ \E x \in DOMAIN nodes : \E q \in Range(OutPins(KindOf(x))) :
          ~IsSourceNode(KindOf(x)) /\ Cardinality(Consumers(x, q)) >= 2
             /\ \A l \in Consumers(x, q) : ~OnCycle(l)

\* C4: a source node with a single output pin that feeds exactly one input pin
\* gets no declaration, and the use site (when its node is generated) holds the
\* node's expression text.
C4_Inlining ==
    IsText(ret) =>
        \A x \in DOMAIN nodes :
            (IsSourceNode(KindOf(x)) /\ Len(OutPins(KindOf(x))) = 1) =>
                LET q == OutPins(KindOf(x))[1]
                    fed == {l \in links : l.ln = x /\ l.lp = q}
                IN Cardinality(fed) = 1 =>
                      /\ \A i \in 1 .. Len(ret.decls) : ret.decls[i].node # x
                      /\ \A l \in fed : l.rn \in Reachable =>
                            SiteTexts(ret, l.rn, l.rp) = {generateExpression(x, q, <<>>)}

\* text was generated for a graph in which a single-output source node feeds
\* exactly one input pin of a generated node other than the output node
C4_Witness ==
    /\ IsText(ret)
    /\ \E x \in DOMAIN nodes :
          /\ IsSourceNode(KindOf(x)) /\ Len(OutPins(KindOf(x))) = 1
          /\ Cardinality({l \in links : l.ln = x}) = 1
          /\ \E l \in links : l.ln = x /\ l.rn # OutId /\ l.rn \in Reachable

\* C5: the fallback text every node kind passes to getInputVar is the default
\* declared for the pin in addIN, and generated text holds that default at the
\* use site of every input pin that has no link.
C5_DefaultFallback ==
    /\ \A kind \in NodeKinds : \A p \in Range(InPins(kind)) :
          FallbackText(kind, p) = DeclaredDefault(kind, p)
    /\ IsText(ret) =>
          \A n \in Reachable : \A p \in Range(InPins(KindOf(n))) :
              ~IsConnected(n, p) =>
                  SiteTexts(ret, n, p) = {DeclaredDefault(KindOf(n), p)}

\* text was generated after the link into the output node's Color pin (made by
\* the constructor) was removed, with a generated Multiply node that has an
\* input pin without a link
C5_Witness ==
    /\ IsText(ret)
    /\ ~IsConnected(OutId, "Color")
    /\ \E n \in Reachable \ {OutId} : \E p \in Range(InPins(KindOf(n))) :
          KindOf(n) = "Multiply" /\ ~IsConnected(n, p)

Scenario(f, m) ==
    /\ KindOf(f) = "Float" /\ nodes[f].val = 250
    /\ KindOf(m) = "MakeVec3"
    /\ links = { [ln |-> f, lp |-> "Value", rn |-> m, rp |-> "X"],
                 [ln |-> f, lp |-> "Value", rn |-> m, rp |-> "Y"],
                 [ln |-> f, lp |-> "Value", rn |-> m, rp |-> "Z"],
                 [ln |-> m, lp |-> "Vec3", rn |-> OutId, rp |-> "Color"],
                 [ln |-> f, lp |-> "Value", rn |-> OutId, rp |-> "Alpha"] }

\* C7 as stated: in the scenario the body assigns the vector of the constant to
\* the colour write and the constant to the alpha write, without declarations.
C7_ScenarioAsStated ==
    \A f \in DOMAIN nodes \ {OutId}, m \in DOMAIN nodes \ {OutId} :
        (Scenario(f, m) /\ IsText(ret)) =>
            /\ ret.decls = <<>>
            /\ ret.final["Color"] = "vec3(0.250, 0.250, 0.250)"
            /\ ret.final["Alpha"] = "0.250"

\* C7 amended: in the scenario the body declares v0 for the constant and v1 for
\* the vector built from v0, and writes v1 to the colour and v0 to the alpha.
C7_Scenario ==
    \A f \in DOMAIN nodes \ {OutId}, m \in DOMAIN nodes \ {OutId} :
        (Scenario(f, m) /\ IsText(ret)) =>
            ret.body = << "    float v0 = 0.250;",
                          "    vec3 v1 = vec3(v0, v0, v0);",
                          "",
                          "    vec3 finalColor = v1;",
                          "    float finalAlpha = v0;",
                          "    FragColor = vec4(finalColor, finalAlpha);" >>

\* text was generated for the scenario graph
C7_Witness ==
    \E f \in DOMAIN nodes \ {OutId}, m \in DOMAIN nodes \ {OutId} :
        Scenario(f, m) /\ IsText(ret)

\* C9 as stated: the node table always holds the output node, and it is the
\* only node of its kind.
C9_OutputNodePresent ==
    /\ OutId \in DOMAIN nodes
    /\ \A n \in DOMAIN nodes : nodes[n].kind = "Output" <=> n = OutId

LosslessHLSL == Keys(HLSLTypeMap) \cap Values(GLSLTypeMap)

LosslessGLSL == Keys(GLSLTypeMap) \cap Values(HLSLTypeMap)

\* C8: a lossless type token converted by HLSLtoGLSLConverter::convert and then
\* by GLSLtoHLSLConverter::convert is the original token again, and so is a
\* lossless GLSL token converted the other way round and back.
C8_TypeRoundTrip ==
    /\ (input \in LosslessHLSL /\ trail = <<"HLSLtoGLSL", "GLSLtoHLSL">>) => text = input
    /\ (input \in LosslessGLSL /\ trail = <<"GLSLtoHLSL", "HLSLtoGLSL">>) => text = input

\* int4 went to GLSL as ivec4 and came back
C8_Witness ==
    /\ input = <<"i", "n", "t", "4">>
    /\ trail = <<"HLSLtoGLSL", "GLSLtoHLSL">>
    /\ text = input

\* C11 as stated: a link that is made joins pins of one declared value type,
\* unless its input pin belongs to a node declared with ConnectionFilter::None;
\* any other attempt leaves the link set as it was.
C11_TypeFilterRejects ==
    [][\A l \in links' \ links :
          \/ PinFilter(KindOf(l.rn)) = "None"
          \/ DeclaredPinType(KindOf(l.ln), l.lp) = DeclaredPinType(KindOf(l.rn), l.rp)]_vars

\* C12 as stated: both ends of every link are pins of nodes in the node table,
\* and generated text declares nothing for a node that is not in the table and
\* takes no input text through a link from such a node.
C12_LinksResolve ==
    /\ \A l \in links :
          /\ l.ln \in DOMAIN nodes /\ l.lp \in Range(OutPins(KindOf(l.ln)))
          /\ l.rn \in DOMAIN nodes /\ l.rp \in Range(InPins(KindOf(l.rn)))
    /\ IsText(ret) =>
          /\ \A i \in 1 .. Len(ret.decls) : ret.decls[i].node \in DOMAIN nodes
          /\ \A i \in 1 .. Len(topologicalSort) : topologicalSort[i] \in DOMAIN nodes

\* the resolver's result is empty or the output node alone
DegeneratePath == Len(topologicalSort) <= 1

C14_GenerationTotal == ret # StackOverflow

\* C15: generated text is, in this order: the version marker, the declaration
\* of the output variable, the three fixed inputs, the five built-in uniforms,
\* for each collected parameter a comment with its display name directly
\* followed by its uniform declaration, and one entry-point function whose
\* body ends with the write to the output variable.
C15_Layout ==
    IsText(ret) =>
        LET t == ret.lines
            k == Len(m_parameters)
            f == 14 + 2 * k
        IN /\ Len(t) = f + 3 + Len(ret.body) + 1
           /\ t[1] = "#version 330 core"
           /\ t[2] = "out vec4 FragColor;"
           /\ SubSeq(t, 4, 6) = <<"in vec3 FragPos;", "in vec3 Normal;", "in vec2 TexCoord;">>
           /\ SubSeq(t, 9, 13) = << "uniform float time;", "uniform vec3 lightPos;",
                                    "uniform vec3 viewPos;", "uniform vec3 lightColor;",
                                    "uniform vec3 objectColor;" >>
           /\ \A i \in 1 .. k :
                 /\ t[14 + 2 * i - 1] = "// User parameter: " \o m_parameters[i].displayName
                 /\ t[14 + 2 * i] = "uniform " \o typeToGLSL(m_parameters[i].type)
                                       \o " " \o m_parameters[i].name \o ";"
           /\ SubSeq(t, f + 1, f + 3) = <<"", "void main()", "{">>
           /\ Cardinality({i \in 1 .. Len(t) : t[i] = "void main()"}) = 1
           /\ SubSeq(t, f + 4, Len(t) - 1) = ret.body
           /\ t[Len(t) - 1] = "    FragColor = vec4(finalColor, finalAlpha);"
           /\ t[Len(t)] = "}"

\* text was generated with two parameters collected and a declaration in the body
C15_Witness == IsText(ret) /\ Len(m_parameters) = 2 /\ Len(ret.decls) >= 1

\* the parameter nodes of the node table
ParameterNodes == {n \in DOMAIN nodes : IsParameterNode(KindOf(n))}

\* the entries of m_parameters that belong to node n
EntriesOf(n) ==
    {i \in 1 .. Len(m_parameters) : m_parameters[i] = getUniformParameter(n)}

\* C16: update() leaves a parameter list with exactly one entry for every
\* parameter node of the node table, reachable from the output node or not,
\* and text generated next declares exactly one uniform for each entry.
C16_ParameterCollection ==
    /\ [][Update =>
            /\ Len(m_parameters') = Cardinality(ParameterNodes')
            /\ \A n \in ParameterNodes' : Cardinality(EntriesOf(n)') = 1]_vars
    /\ [](IsText(ret) =>
            \A i \in 1 .. Len(m_parameters) :
                Cardinality({j \in 1 .. Len(ret.lines) :
                    ret.lines[j] = "uniform " \o typeToGLSL(m_parameters[i].type)
                                      \o " " \o m_parameters[i].name \o ";"}) = 1)

\* text was generated with a uniform for a parameter node that the resolver
\* does not reach, next to one that it reaches
C16_Witness ==
    /\ IsText(ret)
    /\ \E n \in ParameterNodes \ Reachable : EntriesOf(n) # {}
    /\ \E n \in ParameterNodes \cap Reachable : EntriesOf(n) # {}

\* the parameter nodes whose uniform name is uniformName
NamedParameterNodes(uniformName) ==
    {n \in ParameterNodes : getUniformParameter(n).name = uniformName}

\* C17: a setParameterValue(uniformName, v) call leaves the links and the set
\* of nodes as they were, gives the value to the parameter node named
\* uniformName, changes no other node, and changes nothing at all when no
\* parameter node has that name.
C17_SetParameterFrame ==
    [][\A uniformName \in UniformNames, v \in FloatValues :
          setParameterValue(uniformName, v) =>
              /\ links' = links
              /\ DOMAIN nodes' = DOMAIN nodes
              /\ NamedParameterNodes(uniformName) = {} => nodes' = nodes
              /\ \A n \in DOMAIN nodes :
                    nodes'[n] = IF n \in NamedParameterNodes(uniformName)
                                  THEN [nodes[n] EXCEPT !.val = v]
                                  ELSE nodes[n]]_vars

\* one parameter node was given a value and another one kept its own
C17_Witness ==
    \E n \in ParameterNodes, m \in ParameterNodes :
        nodes[n].val = 250 /\ nodes[m].val = 0

\* C18: the sequence topologicalSort returns holds only nodes reachable from
\* the output node, and generated text has no declaration of a node that is
\* not reachable and as many declaration lines as declarations of reachable
\* nodes.
C18_UnreachableExcluded ==
    /\ \A i \in 1 .. Len(topologicalSort) : topologicalSort[i] \in Reachable
    /\ IsText(ret) =>
          /\ \A i \in 1 .. Len(ret.decls) : ret.decls[i].node \in Reachable
          /\ Len(ret.body) = Len(ret.decls) + (IF ret.decls = <<>> THEN 0 ELSE 1) + 3

\* text was generated while a node with inputs, fed by another node, was not
\* reachable from the output node
C18_Witness ==
    /\ IsText(ret)
    /\ \E l \in links : l.rn \notin Reachable /\ l.ln \notin Reachable

\* argument expressions of a saturate call: a name, and a call with parentheses
SaturateArgs ==
    { <<"x">>, <<"d", "o", "t", "(", "a", ",", " ", "b", ")">> }

\* C19 as stated: HLSLtoGLSLConverter::convert turns saturate(E) into
\* clamp(E, 0.0, 1.0) for every argument expression E.
C19_SaturateRewrite ==
    \A e \in SaturateArgs :
        (/\ trail = <<"HLSLtoGLSL">>
         /\ input = <<"s", "a", "t", "u", "r", "a", "t", "e", "(">> \o e \o <<")">>) =>
            text = <<"c", "l", "a", "m", "p", "(">> \o e
                      \o <<",", " ", "0", ".", "0", ",", " ", "1", ".", "0", ")">>

\* C20: HLSLtoGLSLConverter::convert of a declaration with a semantic
\* annotation (: SV_<name>, : POSITION<n>, : TEXCOORD<n>, : NORMAL<n>,
\* : COLOR<n>, : TANGENT<n>, : BINORMAL<n>) returns what it returns for the
\* declaration without the annotation, which holds no colon.
C20_SemanticStripping ==
    \A ann \in SemanticAnnotations :
        (input = AnnotatedDeclaration(ann) /\ trail = <<"HLSLtoGLSL">>) =>
            /\ text = HLSLtoGLSL(AnnotatedDeclaration(<<>>))
            /\ text = <<"v", "e", "c", "4", " ", "p", ";">>

\* a declaration annotated with a numbered semantic was converted
C20_Witness ==
    /\ input = AnnotatedDeclaration(<<":", " ", "B", "I", "N", "O", "R", "M", "A", "L", "2">>)
    /\ trail = <<"HLSLtoGLSL">>
    /\ text = <<"v", "e", "c", "4", " ", "p", ";">>

\* the replacement a map lists for key k
MapValue(map, k) == map[CHOOSE i \in 1 .. Len(map) : map[i][1] = k][2]

\* C21: each converter leaves an identifier that holds a mapped name as a
\* proper substring unchanged, and replaces every whole-word occurrence of a
\* mapped name by what its map lists for it.
C21_WholeWord ==
    /\ trail = <<"HLSLtoGLSL">> =>
          /\ \A k \in HLSLKeys : input \in Affixed(k) => text = input
          /\ \A k \in Keys(HLSLTypeMap) :
                input = InContext(k) => text = InContext(MapValue(HLSLTypeMap, k))
          /\ \A k \in Keys(HLSLFuncMap) :
                input = InContext(k) => text = InContext(MapValue(HLSLFuncMap, k))
    /\ trail = <<"GLSLtoHLSL">> =>
          /\ \A k \in GLSLKeys : input \in Affixed(k) => text = input
          /\ \A k \in Keys(GLSLTypeMap) :
                input = InContext(k) => text = InContext(MapValue(GLSLTypeMap, k))
          /\ \A k \in Keys(GLSLFuncMap) :
                input = InContext(k) => text = InContext(MapValue(GLSLFuncMap, k))

\* float3x went through HLSLtoGLSLConverter::convert and stayed as it was
C21_Witness ==
    /\ input = <<"f", "l", "o", "a", "t", "3", "x">>
    /\ trail = <<"HLSLtoGLSL">>
    /\ text = input

\* the lossy tokens with what HLSLtoGLSLConverter::convert makes of them and
\* what GLSLtoHLSLConverter::convert makes of that
LossyTokens ==
    { << <<"h", "a", "l", "f">>, <<"f", "l", "o", "a", "t">>, <<"f", "l", "o", "a", "t">> >>,
      << <<"h", "a", "l", "f", "2">>, <<"v", "e", "c", "2">>, <<"f", "l", "o", "a", "t", "2">> >>,
      << <<"h", "a", "l", "f", "3">>, <<"v", "e", "c", "3">>, <<"f", "l", "o", "a", "t", "3">> >>,
      << <<"h", "a", "l", "f", "4">>, <<"v", "e", "c", "4">>, <<"f", "l", "o", "a", "t", "4">> >>,
      << <<"d", "d", "x", "_", "c", "o", "a", "r", "s", "e">>, <<"d", "F", "d", "x">>, <<"d", "d", "x">> >>,
      << <<"d", "d", "x", "_", "f", "i", "n", "e">>, <<"d", "F", "d", "x">>, <<"d", "d", "x">> >>,
      << <<"d", "d", "y", "_", "c", "o", "a", "r", "s", "e">>, <<"d", "F", "d", "y">>, <<"d", "d", "y">> >>,
      << <<"d", "d", "y", "_", "f", "i", "n", "e">>, <<"d", "F", "d", "y">>, <<"d", "d", "y">> >> }

\* C22: half, half2, half3, half4 become float, vec2, vec3, vec4 and come back
\* as float, float2, float3, float4; ddx_coarse, ddx_fine, ddy_coarse, ddy_fine
\* become dFdx, dFdy and come back as ddx, ddy.
C22_LossyOneWay ==
    \A tok \in LossyTokens :
        input = tok[1] =>
            /\ trail = <<"HLSLtoGLSL">> => text = tok[2]
            /\ trail = <<"HLSLtoGLSL", "GLSLtoHLSL">> => text = tok[3]

\* half3 was translated to GLSL and back
C22_Witness ==
    /\ input = <<"h", "a", "l", "f", "3">>
    /\ trail = <<"HLSLtoGLSL", "GLSLtoHLSL">>
    /\ text = <<"f", "l", "o", "a", "t", "3">>

\* C23 as stated: the sequence topologicalSort returns does not hold the
\* output node.
C23_OutputExcludedAsStated ==
    \A i \in 1 .. Len(topologicalSort) : topologicalSort[i] # OutId

\* C23 amended: the sequence topologicalSort returns holds the output node
\* exactly once, as its last element; generated text has no declaration for it
\* and its statements come after every declaration.
C23_OutputLast ==
    /\ Positions(topologicalSort, OutId) = {Len(topologicalSort)}
    /\ IsText(ret) =>
          /\ \A i \in 1 .. Len(ret.decls) : ret.decls[i].node # OutId
          /\ SubSeq(ret.body, Len(ret.body) - 2, Len(ret.body))
                = generateCodeFromVarMap(
                     [s \in {LeftOf(OutId, p) : p \in {q \in {"Color", "Alpha"} :
                                IsConnected(OutId, q)}} |->
                        IF IsConnected(OutId, "Color") /\ s = LeftOf(OutId, "Color")
                          THEN ret.final["Color"] ELSE ret.final["Alpha"]])

\* text was generated for a graph in which the resolver returns two nodes
\* before the output node
C23_Witness == IsText(ret) /\ Len(topologicalSort) = 3 /\ Len(ret.decls) >= 1

\* the number of input pins of generated nodes linked to any output pin of x
NodeFanOut(x) == Cardinality({l \in links : l.ln = x /\ l.rn \in Reachable})

\* a source node with several output pins, none feeding more than one input pin
SpreadSource(x) ==
    /\ IsSourceNode(KindOf(x))
    /\ Len(OutPins(KindOf(x))) >= 2
    /\ \A q \in Range(OutPins(KindOf(x))) : Cardinality(Consumers(x, q)) <= 1

\* C24 as stated: fan-out is counted per output pin, so a source node with
\* several output pins that each feed at most one input pin gets no declaration.
C24_PerPinFanOutAsStated ==
    IsText(ret) =>
        \A x \in Reachable \ {OutId} :
            SpreadSource(x) => \A i \in 1 .. Len(ret.decls) : ret.decls[i].node # x

\* C24 amended: fan-out is counted per node, as the number of input pins of
\* generated nodes (the output node included) linked to any of the node's
\* output pins; every output pin of a generated source node is inlined when that
\* node count is at most one and declared exactly once otherwise, and every
\* output pin of a generated non-source node is declared exactly once.
C24_PerNodeFanOut ==
    IsText(ret) =>
        \A x \in Reachable \ {OutId} : \A q \in Range(OutPins(KindOf(x))) :
            Cardinality(DeclsFor(ret, x, q))
               = IF IsSourceNode(KindOf(x)) /\ NodeFanOut(x) <= 1 THEN 0 ELSE 1

\* text was generated for a graph in which two different output pins of one
\* source node feed one input pin each, one of them an input of the output
\* node, and a pin of that node that feeds nothing was declared
C24_Witness ==
    /\ IsText(ret)
    /\ \E x \in Reachable \ {OutId} :
          /\ SpreadSource(x)
          /\ NodeFanOut(x) = 2
          /\ \E l \in links : l.ln = x /\ l.rn = OutId
          /\ \E q \in Range(OutPins(KindOf(x))) :
                Consumers(x, q) = {} /\ DeclsFor(ret, x, q) # {}

\* the type text generation r gave output pin (x, q): the type of its
\* declaration, and for an inlined pin of a source node the type text of the
\* type it was declared with
TypeTextOf(r, x, q) ==
    IF DeclsFor(r, x, q) # {}
      THEN r.decls[CHOOSE i \in DeclsFor(r, x, q) : TRUE].type
      ELSE typeToGLSL(DeclaredPinType(KindOf(x), q))

\* input pin p of node m is linked to an output pin that generation r typed as
\* a vector
FedByVector(r, m, p) ==
    /\ IsConnected(m, p)
    /\ TypeTextOf(r, LeftOf(m, p)[1], LeftOf(m, p)[2]) = typeToGLSL("Vec3")

\* the Multiply nodes that are generated
MultiplyNodes == {m \in Reachable \ {OutId} : KindOf(m) = "Multiply"}

\* in text r every Multiply node is declared once, as a vector exactly when
\* one of its inputs A, B is fed by a vector
MultiplyTyped(r) ==
    \A m \in MultiplyNodes :
        /\ Cardinality(DeclsFor(r, m, "Result")) = 1
        /\ \A i \in DeclsFor(r, m, "Result") :
              r.decls[i].type = IF FedByVector(r, m, "A") \/ FedByVector(r, m, "B")
                                  THEN typeToGLSL("Vec3")
                                  ELSE typeToGLSL("Float")

\* input pin p of node m is linked to an output pin of a node other than a
\* Multiply node that is declared with the scalar type
FedByDeclaredScalar(m, p) ==
    /\ IsConnected(m, p)
    /\ KindOf(LeftOf(m, p)[1]) # "Multiply"
    /\ DeclaredPinType(KindOf(LeftOf(m, p)[1]), LeftOf(m, p)[2]) = "Float"

\* a step that links input p of Multiply node m, fed by a vector and declared
\* as a vector in the text generated last, to a scalar output pin instead,
\* the other input not being fed by a vector
RelinkedToScalar(m, p) ==
    /\ IsText(ret) /\ m \in MultiplyNodes
    /\ FedByVector(ret, m, p)
    /\ \A i \in DeclsFor(ret, m, "Result") : ret.decls[i].type = typeToGLSL("Vec3")
    /\ nodes' = nodes
    /\ FedByDeclaredScalar(m, p)' /\ LeftOf(m, p)' # LeftOf(m, p)
    /\ \A o \in {"A", "B"} \ {p} : ~IsConnected(m, o)' \/ FedByDeclaredScalar(m, o)'

\* C25: every generation pass that returns declares each generated Multiply
\* node with the vector type if one of its inputs A, B is linked to an output
\* pin of vector type and with float otherwise; after a step relinking an
\* input from a vector source to a scalar source the type the next pass
\* declares is float.
C25_MultiplyInference ==
    /\ [](IsText(ret) => MultiplyTyped(ret))
    /\ [][\A m \in DOMAIN nodes : \A p \in {"A", "B"} :
             RelinkedToScalar(m, p) =>
                typeToGLSL(getOutputType(m, "Result"))' = typeToGLSL("Float")]_vars

\* text was generated for a graph in which a Multiply node declared float has
\* an input linked to a scalar pin of a node that also has a vector pin
C25_Witness ==
    /\ IsText(ret)
    /\ \E m \in MultiplyNodes : \E p \in {"A", "B"} :
          /\ IsConnected(m, p)
          /\ KindOf(LeftOf(m, p)[1]) = "UV" /\ LeftOf(m, p)[2] = "X"
          /\ \A i \in DeclsFor(ret, m, "Result") : ret.decls[i].type = typeToGLSL("Float")

\* text a is a proper prefix of text b
IsProperPrefix(a, b) == Len(a) < Len(b) /\ SubSeq(b, 1, Len(a)) = a

\* the pairs of entries of a map in which the key that is a proper prefix of
\* the other key is listed first
ShortBeforeLong(map) ==
    {<<i, j>> \in (1 .. Len(map)) \X (1 .. Len(map)) :
        i < j /\ IsProperPrefix(map[i][1], map[j][1])}

\* some key of the map is a proper prefix of another key of the map
HasPrefixPair(map) == \E a, b \in Keys(map) : IsProperPrefix(a, b)

\* the substitution lists a converter applies
SubstitutionLists(converter) ==
    IF converter = "HLSLtoGLSL"
      THEN {HLSLTypeMap, HLSLFuncMap}
      ELSE {GLSLTypeMap, GLSLFuncMap}

\* C26 as stated: every substitution list applied by a conversion lists a key
\* that is a proper prefix of another key after it.
C26_LongestFirstAsStated ==
    \A k \in 1 .. Len(trail) : \A map \in SubstitutionLists(trail[k]) :
        ShortBeforeLong(map) = {}

\* C26 amended: the type map of the HLSL-to-GLSL converter lists a key that is
\* a proper prefix of another key after it; the maps of the GLSL-to-HLSL
\* converter have no such keys; the function map of the HLSL-to-GLSL converter
\* lists ddx and ddy before the four longer names that start with them, the
\* longer name goes on with a word character, and a text that is one of its
\* keys is converted to what the map lists for that key.
C26_LongestFirst ==
    /\ ShortBeforeLong(HLSLTypeMap) = {} /\ HasPrefixPair(HLSLTypeMap)
    /\ ~HasPrefixPair(GLSLTypeMap) /\ ~HasPrefixPair(GLSLFuncMap)
    /\ {<<HLSLFuncMap[p[1]][1], HLSLFuncMap[p[2]][1]>> : p \in ShortBeforeLong(HLSLFuncMap)}
          = { <<<<"d", "d", "x">>, <<"d", "d", "x", "_", "c", "o", "a", "r", "s", "e">>>>,
              <<<<"d", "d", "x">>, <<"d", "d", "x", "_", "f", "i", "n", "e">>>>,
              <<<<"d", "d", "y">>, <<"d", "d", "y", "_", "c", "o", "a", "r", "s", "e">>>>,
              <<<<"d", "d", "y">>, <<"d", "d", "y", "_", "f", "i", "n", "e">>>> }
    /\ \A p \in ShortBeforeLong(HLSLFuncMap) :
          IsWordChar(HLSLFuncMap[p[2]][1][Len(HLSLFuncMap[p[1]][1]) + 1])
    /\ (trail = <<"HLSLtoGLSL">> /\ input \in Keys(HLSLFuncMap) \cup Keys(HLSLTypeMap)) =>
          text = MapValue(HLSLTypeMap \o HLSLFuncMap, input)

\* a name that starts with a key listed before it was converted as a whole
C26_Witness ==
    /\ trail = <<"HLSLtoGLSL">>
    /\ input = <<"d", "d", "x", "_", "c", "o", "a", "r", "s", "e">>
    /\ text = <<"d", "F", "d", "x">>

\* the variable names generation r declared
DeclaredNames(r) == {r.decls[i].var : i \in 1 .. Len(r.decls)}

\* the declarations of generation r whose node takes input pin p from a node
\* that comes later in the resolver's order (a cycle edge the resolver skipped)
ForwardUses(r) ==
    {<<i, p>> \in (1 .. Len(r.decls)) \X UNION {Range(InPins(k)) : k \in NodeKinds} :
        /\ p \in Range(InPins(KindOf(r.decls[i].node)))
        /\ IsConnected(r.decls[i].node, p)
        /\ \A a \in Positions(topologicalSort, r.decls[i].node),
              b \in Positions(topologicalSort, LeftOf(r.decls[i].node, p)[1]) : a < b}

\* C27: in generated text the k-th declaration declares v(k-1), every declared
\* name among the input texts of a declaration was declared on an earlier line,
\* every declared name among the input texts of the final statements was
\* declared, and an input taken from a node that is emitted later holds the
\* pin's default text.
C27_DefinitionBeforeUse ==
    IsText(ret) =>
        /\ \A i \in 1 .. Len(ret.decls) : ret.decls[i].var = "v" \o ToString(i - 1)
        /\ \A i, j \in 1 .. Len(ret.decls) :
              i # j => ret.decls[i].var # ret.decls[j].var
        /\ \A i \in 1 .. Len(ret.decls) : \A p \in DOMAIN ret.decls[i].args :
              ret.decls[i].args[p] \in DeclaredNames(ret) =>
                  \E j \in 1 .. (i - 1) : ret.decls[j].var = ret.decls[i].args[p]
        /\ \A i \in 1 .. Len(ret.decls) :
              ret.body[i] = "    " \o ret.decls[i].type \o " " \o ret.decls[i].var
                               \o " = " \o ret.decls[i].expr \o ";"
        /\ \A p \in DOMAIN ret.final :
              (IsConnected(OutId, p) /\ ~IsSourceNode(KindOf(LeftOf(OutId, p)[1]))) =>
                    ret.final[p] \in DeclaredNames(ret)
        /\ \A u \in ForwardUses(ret) :
              ret.decls[u[1]].args[u[2]]
                 = DeclaredDefault(KindOf(ret.decls[u[1]].node), u[2])

\* text was generated for a graph with a cycle: one declaration holds a pin's
\* default for an input taken from a node emitted later, and a later
\* declaration uses the name the first one declared
C27_Witness ==
    /\ IsText(ret)
    /\ ForwardUses(ret) # {}
    /\ \E i \in 1 .. Len(ret.decls) : \E p \in DOMAIN ret.decls[i].args :
          ret.decls[i].args[p] = "v0" /\ i >= 2

\* the sequence s holds no element twice
NoRepeats(s) == \A i, j \in 1 .. Len(s) : s[i] = s[j] => i = j

\* C28: after every statement of topologicalSort that changes one of them the
\* visited set and the on-stack set are disjoint and the result holds no node
\* twice; topologicalSort returns with an empty on-stack set and a result that
\* holds every node reachable from the output node exactly once and no other
\* node, whether or not the graph has a cycle.
C28_ResolverBookkeeping ==
    LET st == topologicalSortState
    IN /\ \A k \in 1 .. Len(st.steps) :
             /\ st.steps[k].visited \cap st.steps[k].inStack = {}
             /\ NoRepeats(st.steps[k].result)
       /\ Len(st.steps) = 4 * Cardinality(Reachable)
       /\ st.inStack = {}
       /\ st.visited = Reachable
       /\ \A n \in Reachable : Cardinality(Positions(st.result, n)) = 1
       /\ Len(st.result) = Cardinality(Reachable)

\* text was generated for a graph in which two nodes and the output node are
\* reachable, a link between reachable nodes lies on a cycle, and the resolver
\* held a node on the stack while another one was already visited
C28_Witness ==
    /\ IsText(ret)
    /\ Cardinality(Reachable) = 3
    /\ \E l \in links : l.rn \in Reachable /\ OnCycle(l)
    /\ \E k \in 1 .. Len(topologicalSortState.steps) :
          /\ topologicalSortState.steps[k].inStack # {}
          /\ topologicalSortState.steps[k].visited # {}

RECURSIVE SubstituteAllFrom(_, _, _)

\* t from position i on with every maximal run of word characters that is a key
\* of map replaced by what the map lists for it, all at once
SubstituteAllFrom(t, map, i) ==
    IF i > Len(t)
      THEN <<>>
      ELSE IF IsWordChar(t[i])
        THEN LET j == SkipWhile(t, i, Letters \cup Digits \cup {"_"})
                 w == SubSeq(t, i, j - 1)
             IN (IF w \in Keys(map) THEN MapValue(map, w) ELSE w)
                   \o SubstituteAllFrom(t, map, j)
        ELSE <<t[i]>> \o SubstituteAllFrom(t, map, i + 1)

\* text t holds w somewhere
ContainsText(t, w) == \E i \in 1 .. Len(t) : OccursAt(t, i, w)

\* text t holds nothing the structural rewrites look for
OnlyTokens(t) ==
    /\ ~ContainsText(t, <<"s", "a", "t", "u", "r", "a", "t", "e">>)
    /\ ~ContainsText(t, <<"t", "e", "x", "2", "D">>)
    /\ ~ContainsText(t, <<":">>)

\* what the structural rewrites of HLSLtoGLSLConverter::convert make of t
StructuralRewrites(t) ==
    convertSwizzle(convertTextureSampling(convertSemantics(convertSaturate(t))))

\* no replacement text of a rule is changed by the rules applied after it
NoCascade ==
    /\ \A k \in 1 .. Len(HLSLTypeMap) :
          HLSLconvertFunctions(ApplyMap(HLSLTypeMap[k][2], HLSLTypeMap, k + 1))
             = HLSLTypeMap[k][2]
          /\ StructuralRewrites(HLSLTypeMap[k][2]) = HLSLTypeMap[k][2]
    /\ \A k \in 1 .. Len(HLSLFuncMap) :
          StructuralRewrites(ApplyMap(HLSLFuncMap[k][2], HLSLFuncMap, k + 1))
             = HLSLFuncMap[k][2]
    /\ \A r \in { <<"c", "l", "a", "m", "p", "(", "x", ",", " ", "0", ".", "0",
                    ",", " ", "1", ".", "0", ")">>,
                  <<"t", "e", "x", "t", "u", "r", "e", "(">> } :
          convertSwizzle(convertTextureSampling(convertSemantics(r))) = r
    /\ \A k \in 1 .. Len(GLSLTypeMap) :
          GLSLconvertFunctions(ApplyMap(GLSLTypeMap[k][2], GLSLTypeMap, k + 1))
             = GLSLTypeMap[k][2]
    /\ \A k \in 1 .. Len(GLSLFuncMap) :
          ApplyMap(GLSLFuncMap[k][2], GLSLFuncMap, k + 1) = GLSLFuncMap[k][2]

\* one conversion of a text of tokens is the substitution of all tokens at once
SequentialIsSimultaneous ==
    /\ (trail = <<"HLSLtoGLSL">> /\ OnlyTokens(input)) =>
          text = SubstituteAllFrom(input, HLSLTypeMap \o HLSLFuncMap, 1)
    /\ (trail = <<"GLSLtoHLSL">> /\ OnlyTokens(input)) =>
          text = SubstituteAllFrom(input, GLSLTypeMap \o GLSLFuncMap, 1)

\* C29: in each converter no replacement text of a rule is changed by a rule
\* applied after it, a conversion of a text of mapped tokens is the substitution
\* of all tokens at once, and a second HLSLtoGLSLConverter::convert leaves the
\* output of the first unchanged.
C29_NoCascade ==
    /\ NoCascade
    /\ SequentialIsSimultaneous
    /\ trail = <<"HLSLtoGLSL", "HLSLtoGLSL">> => text = HLSLtoGLSL(input)

\* App::updateShaderFromGraph is called in this step
CallsUpdateShaderFromGraph ==
    /\ \/ pc = "init"
       \/ pc = "autoCompile" /\ m_autoCompile
       \/ pc = "renderShaderEditorWindow" /\ m_autoCompile' = m_autoCompile
    /\ updateShaderFromGraph

\* C30: a call of App::updateShaderFromGraph calls compileShaders exactly when
\* the text generated differs from m_lastGeneratedCode, and no other step calls
\* it; m_fragmentShaderSource equals m_lastGeneratedCode after every call; a
\* call made after a failed compilation with the same generated text leaves
\* the error and the program as they are; renderCubeToTexture uses the shader
\* program only if the last compileShaders call succeeded.
C30_RecompileOnChange ==
    /\ [](m_fragmentShaderSource = m_lastGeneratedCode)
    /\ [](pc # "init" => m_lastGeneratedCode # <<>>)
    /\ [][/\ CallsUpdateShaderFromGraph =>
                /\ (compileCalls' # compileCalls) <=> (ret'.lines # m_lastGeneratedCode)
                /\ m_lastGeneratedCode' = ret'.lines
                /\ (m_shaderCompileError /\ ret'.lines = m_lastGeneratedCode) =>
                      UNCHANGED <<m_shaderCompileError, m_shaderProgram,
                                  compileCalls, lastCompile, m_fragmentShaderSource>>
          /\ compileCalls' # compileCalls => CallsUpdateShaderFromGraph
          /\ (pc = "renderCubeToTexture" /\ usedProgram') =>
                (lastCompile = "ok" /\ m_shaderProgram = "linked")]_vars

\* a frame was drawn with the shader program, and later a compilation of a
\* changed text failed and a frame was drawn without the program, the
\* auto-compile box being checked
C30_Witness ==
    /\ pc = "renderNodeGraphWindow"
    /\ ~usedProgram
    /\ m_shaderCompileError /\ lastCompile = "fragment"
    /\ m_shaderProgram = "deleted"
    /\ m_autoCompile
    /\ Len(m_lastGeneratedCode) > 0
    /\ compileCalls = 0

====
